---- MODULE Spec2Model ----
(***************************************************************************)
(* A model of the dabbot cache (itskiru/cache): a denormalized cache of    *)
(* guild, member, role and voice-state data kept in a Redis keyspace.      *)
(*                                                                         *)
(* A Rust String is a sequence of one-character strings, so that the       *)
(* formatting of identifiers (format!("{}", id)) and the parsing done by   *)
(* the materializer (string.parse::<u64>()) are computed, not assumed.     *)
(* A parsed JSON number is kept as its canonical decimal digits, so the    *)
(* 64-bit limits are compared digit by digit.                              *)
(***************************************************************************)
EXTENDS Integers, Sequences, FiniteSets, TLC

\* ------------------------------------------------------------------------
\* Bounds of the model
\* ------------------------------------------------------------------------

NumUsers == 2

NumChannels == 2

MaxTasks == 2

MaxChoices == 4

\* ------------------------------------------------------------------------
\* Strings and numbers
\* ------------------------------------------------------------------------

DigitChars == <<"0", "1", "2", "3", "4", "5", "6", "7", "8", "9">>

IsDigit(c) == \E i \in 1..10 : DigitChars[i] = c

DigitVal(c) == (CHOOSE i \in 1..10 : DigitChars[i] = c) - 1

RECURSIVE FmtU64(_)
\* n.to_string() of an unsigned integer: its decimal digits.
FmtU64(n) ==
    IF n < 10 THEN <<DigitChars[n + 1]>>
    ELSE FmtU64(n \div 10) \o <<DigitChars[(n % 10) + 1]>>

RECURSIVE StripZeros(_)
\* The canonical decimal of a digit string: leading zeros dropped, "0" kept.
StripZeros(s) ==
    IF Len(s) > 1 /\ s[1] = "0" THEN StripZeros(Tail(s)) ELSE s

RECURSIVE DigitsLess(_, _)
\* a < b for two digit strings of the same length.
DigitsLess(a, b) ==
    IF a = <<>> THEN FALSE
    ELSE IF a[1] # b[1] THEN DigitVal(a[1]) < DigitVal(b[1])
    ELSE DigitsLess(Tail(a), Tail(b))

\* a <= b for two canonical decimals.
DecLeq(a, b) ==
    \/ Len(a) < Len(b)
    \/ Len(a) = Len(b) /\ (a = b \/ DigitsLess(a, b))

\* u64::MAX, 18446744073709551615
U64Max ==
    <<"1","8","4","4","6","7","4","4","0","7","3","7","0","9","5","5","1","6","1","5">>

\* i64::MAX, 9223372036854775807
I64Max ==
    <<"9","2","2","3","3","7","2","0","3","6","8","5","4","7","7","5","8","0","7">>

AllDigits(s) == \A i \in 1..Len(s) : IsDigit(s[i])

\* string.parse::<u64>(): an optional "+", then one or more digits, and no
\* overflow. The value is kept as its canonical decimal.
ParseU64(s) ==
    LET body == IF Len(s) > 0 /\ s[1] = "+" THEN Tail(s) ELSE s
    IN  IF Len(body) = 0 \/ ~AllDigits(body) THEN [ok |-> FALSE]
        ELSE IF ~DecLeq(StripZeros(body), U64Max) THEN [ok |-> FALSE]
        ELSE [ok |-> TRUE, dec |-> StripZeros(body)]

RECURSIVE DecToNat(_)
\* The number a canonical decimal denotes (identifiers of the model are small).
DecToNat(d) ==
    IF Len(d) = 0 THEN 0
    ELSE 10 * DecToNat(SubSeq(d, 1, Len(d) - 1)) + DigitVal(d[Len(d)])

\* A decoded u64: an integer of the model while it has at most nine digits,
\* its canonical decimal above that.
U64Of(d) == IF Len(d) <= 9 THEN DecToNat(d) ELSE d

None == [some |-> FALSE]

Some(x) == [some |-> TRUE, v |-> x]

\* ------------------------------------------------------------------------
\* RESP values
\* ------------------------------------------------------------------------

Nil == [kind |-> "Nil"]

BulkString(s) == [kind |-> "BulkString", v |-> s]

Integer(n) == [kind |-> "Integer", v |-> n]

SimpleString(s) == [kind |-> "SimpleString", v |-> s]

Array(xs) == [kind |-> "Array", v |-> xs]

RespError(why) == [kind |-> "Error", v |-> why]

\* ------------------------------------------------------------------------
\* Key addressing (gen.rs)
\* ------------------------------------------------------------------------

gen_channel(id) == <<"c", "h", ":">> \o FmtU64(id)

gen_channel_voice_states(id) == <<"c", "h", ":">> \o FmtU64(id) \o <<":", "v">>

gen_choice_as_channel(id) == <<"c", "h", ":">> \o FmtU64(id)

gen_choice(id) == <<"c", ":">> \o FmtU64(id)

gen_join(id) == <<"j", ":">> \o FmtU64(id)

gen_guild(id) == <<"g", ":">> \o FmtU64(id)

gen_guild_channels(id) == <<"g", ":">> \o FmtU64(id) \o <<":", "c">>

gen_guild_features(id) == <<"g", ":">> \o FmtU64(id) \o <<":", "f">>

gen_guild_members(id) == <<"g", ":">> \o FmtU64(id) \o <<":", "m">>

gen_guild_player(id) == <<"g", ":">> \o FmtU64(id) \o <<":", "l", "h", "s">>

gen_guild_roles(id) == <<"g", ":">> \o FmtU64(id) \o <<":", "r">>

gen_guild_voice_states(guild_id) == <<"g", ":">> \o FmtU64(guild_id) \o <<":", "v">>

gen_queue(guild_id) == <<"q", "u", "e", "u", "e", ":">> \o FmtU64(guild_id)

gen_member(guild_id, user_id) ==
    <<"g", ":">> \o FmtU64(guild_id) \o <<":", "m", ":">> \o FmtU64(user_id)

gen_member_roles(guild_id, user_id) ==
    <<"g", ":">> \o FmtU64(guild_id) \o <<":", "m", ":">> \o FmtU64(user_id) \o <<":", "r">>

gen_role(guild_id, role_id) ==
    <<"g", ":">> \o FmtU64(guild_id) \o <<":", "r", ":">> \o FmtU64(role_id)

gen_user_voice_state(guild_id, user_id) ==
    <<"g", ":">> \o FmtU64(guild_id) \o <<":", "v", ":">> \o FmtU64(user_id)

gen_sharder_to(shard_id) ==
    <<"s", "h", "a", "r", "d", "e", "r", ":", "t", "o", ":">> \o FmtU64(shard_id)

\* ------------------------------------------------------------------------
\* The store: the Redis keyspace and the commands the cache sends
\* ------------------------------------------------------------------------

SetVal(m) == [type |-> "set", members |-> m]

HashVal(f) == [type |-> "hash", fields |-> f]

ListVal(l) == [type |-> "list", items |-> l]

EmptyStore == [k \in {} |-> Nil]

Exists(s, k) == k \in DOMAIN s

HasType(s, k, t) == Exists(s, k) /\ s[k].type = t

StorePut(s, k, v) == [x \in DOMAIN s \cup {k} |-> IF x = k THEN v ELSE s[x]]

StoreDel(s, k) == [x \in DOMAIN s \ {k} |-> s[x]]

\* The members of the set at k (a missing key is the empty set).
Members(s, k) == IF HasType(s, k, "set") THEN s[k].members ELSE {}

\* The fields of the hash at k (a missing key has none).
Fields(s, k) == IF HasType(s, k, "hash") THEN s[k].fields ELSE [f \in {} |-> <<>>]

Range(xs) == {xs[i] : i \in 1..Len(xs)}

\* A command as the cache builds it with resp_array!: its name, key, arguments.
Cmd(name, key, args) == [name |-> name, key |-> key, args |-> args]

\* usize arguments become bulk strings of their decimal digits.
UsizeArgs(ids) == [i \in 1..Len(ids) |-> FmtU64(ids[i])]

\* The field/value pairs of a flat HMSET argument list; a later pair wins.
PairsOf(args) ==
    LET names == {args[2 * i - 1] : i \in 1..(Len(args) \div 2)}
        last(f) == CHOOSE i \in 1..(Len(args) \div 2) :
                       /\ args[2 * i - 1] = f
                       /\ \A j \in 1..(Len(args) \div 2) : args[2 * j - 1] = f => j <= i
    IN  [f \in names |-> args[2 * last(f)]]

ExecDELKeepingSets(s, c) ==
    IF HasType(s, c.key, "set") THEN s ELSE StoreDel(s, c.key)

ExecDEL(s, c) == StoreDel(s, c.key)

ExecSADD(s, c) ==
    IF ~Exists(s, c.key) THEN StorePut(s, c.key, SetVal(Range(c.args)))
    ELSE IF s[c.key].type = "set"
         THEN StorePut(s, c.key, SetVal(s[c.key].members \cup Range(c.args)))
         ELSE s

ExecSREM(s, c) ==
    IF ~HasType(s, c.key, "set") THEN s
    ELSE LET left == s[c.key].members \ Range(c.args)
         IN  IF left = {} THEN StoreDel(s, c.key) ELSE StorePut(s, c.key, SetVal(left))

ExecHMSET(s, c) ==
    IF Exists(s, c.key) /\ s[c.key].type # "hash" THEN s
    ELSE LET old == Fields(s, c.key)
             new == PairsOf(c.args)
         IN  StorePut(s, c.key,
                 HashVal([f \in DOMAIN old \cup DOMAIN new |->
                             IF f \in DOMAIN new THEN new[f] ELSE old[f]]))

ExecHDEL(s, c) ==
    IF ~HasType(s, c.key, "hash") THEN s
    ELSE LET old == s[c.key].fields
             keep == DOMAIN old \ Range(c.args)
         IN  IF keep = {} THEN StoreDel(s, c.key)
             ELSE StorePut(s, c.key, HashVal([f \in keep |-> old[f]]))

\* The store after one write command has been applied by the server. A command
\* sent to a key of another type is answered with an error and changes nothing.
Exec(s, c) ==
    CASE c.name = "DEL" -> ExecDEL(s, c)
      [] c.name = "SADD" -> ExecSADD(s, c)
      [] c.name = "SREM" -> ExecSREM(s, c)
      [] c.name = "HMSET" -> ExecHMSET(s, c)
      [] c.name = "HDEL" -> ExecHDEL(s, c)
      [] OTHER -> s

RECURSIVE ExecAll(_, _)
\* Commands sent on the one connection are applied in the order they were sent.
ExecAll(s, cmds) ==
    IF cmds = <<>> THEN s ELSE ExecAll(Exec(s, Head(cmds)), Tail(cmds))

\* The order in which the model lists hash fields in an HGETALL reply.
FieldOrder ==
    <<"afk_channel_id", "channel_id", "colour", "deaf", "endpoint", "joined_at",
      "mute", "name", "nick", "owner_id", "permissions", "region", "self_deaf",
      "self_mute", "session_id", "suppress", "token", "user_id">>

RECURSIVE FlattenFields(_, _)
FlattenFields(h, order) ==
    IF order = <<>> THEN <<>>
    ELSE (IF Head(order) \in DOMAIN h
          THEN <<BulkString(Head(order)), BulkString(h[Head(order)])>>
          ELSE <<>>) \o FlattenFields(h, Tail(order))

\* HGETALL: the flattened field, value, field, value, ... of the hash.
ReplyHGETALL(s, key) ==
    IF ~Exists(s, key) THEN Array(<<>>)
    ELSE IF s[key].type # "hash" THEN RespError("WRONGTYPE")
    ELSE Array(FlattenFields(s[key].fields, FieldOrder))

RECURSIVE SetToSeq(_)
SetToSeq(S) ==
    IF S = {} THEN <<>>
    ELSE LET x == CHOOSE y \in S : TRUE IN <<x>> \o SetToSeq(S \ {x})

\* SMEMBERS: the members of the set, as bulk strings.
ReplySMEMBERS(s, key) ==
    IF ~Exists(s, key) THEN Array(<<>>)
    ELSE IF s[key].type # "set" THEN RespError("WRONGTYPE")
    ELSE LET ms == SetToSeq(s[key].members)
         IN  Array([i \in 1..Len(ms) |-> BulkString(ms[i])])

\* GET: the string at the key, nil for a missing key, and an error reply for a
\* key that holds a set, a hash or a list.
ReplyGET(s, key) ==
    IF ~Exists(s, key) THEN Nil
    ELSE IF s[key].type # "string" THEN RespError("WRONGTYPE")
    ELSE BulkString(s[key].value)

\* SREM: the number of members removed.
ReplySREM(s, c) ==
    IF ~Exists(s, c.key) THEN Integer(0)
    ELSE IF s[c.key].type # "set" THEN RespError("WRONGTYPE")
    ELSE Integer(Cardinality(s[c.key].members \cap Range(c.args)))

\* ------------------------------------------------------------------------
\* The materializer (model.rs)
\* ------------------------------------------------------------------------

Null == [kind |-> "Null"]

Number(dec) == [kind |-> "Number", dec |-> dec]

String(s) == [kind |-> "String", v |-> s]

ValueArray(xs) == [kind |-> "Array", v |-> xs]

RECURSIVE resp_to_value(_)
\* A bulk string that parses as a u64 becomes a number, any other a string.
resp_to_value(resp) ==
    CASE resp.kind = "Nil" -> Null
      [] resp.kind = "Array" ->
            ValueArray([i \in 1..Len(resp.v) |-> resp_to_value(resp.v[i])])
      [] resp.kind = "BulkString" ->
            IF ParseU64(resp.v).ok THEN Number(ParseU64(resp.v).dec) ELSE String(resp.v)
      [] resp.kind = "Integer" -> Number(FmtU64(resp.v))
      [] resp.kind = "SimpleString" -> String(resp.v)

RECURSIVE resp_to_value_panics(_)
\* resp_to_value has no value for an error reply and panics on one, at any
\* depth of an array.
resp_to_value_panics(resp) ==
    \/ resp.kind = "Error"
    \/ /\ resp.kind = "Array"
       /\ \E i \in 1..Len(resp.v) : resp_to_value_panics(resp.v[i])

Ok(x) == [tag |-> "Ok", v |-> x]

Err(kind, why) == [tag |-> "Err", kind |-> kind, why |-> why]

\* A call that panics instead of returning.
Panic(why) == [tag |-> "Panic", why |-> why]

\* create_hashmap: the map of field name to value of a flattened field, value,
\* ... sequence, a later value of a field replacing an earlier one. The loop
\* takes a key and unwraps the element after it, converts that value, and then
\* takes the key as a string: it panics at the first pair whose value is
\* missing (a list of odd length), whose value holds an error reply, or whose
\* key is neither a bulk nor a simple string.
create_hashmap(resp) ==
    LET n == Len(resp) \div 2
        rounds == (Len(resp) + 1) \div 2
        why(i) == IF 2 * i > Len(resp) THEN "unwrap on None"
                  ELSE IF resp_to_value_panics(resp[2 * i]) THEN "error reply"
                  ELSE IF resp[2 * i - 1].kind \notin {"BulkString", "SimpleString"}
                       THEN "Not a RESP string"
                  ELSE "none"
        bad == {i \in 1..rounds : why(i) # "none"}
        names == {resp[2 * i - 1].v : i \in 1..n}
        last(f) == CHOOSE i \in 1..n :
                       /\ resp[2 * i - 1].v = f
                       /\ \A j \in 1..n : resp[2 * j - 1].v = f => j <= i
    IN  IF bad # {} THEN Panic(why(CHOOSE i \in bad : \A j \in bad : i <= j))
        ELSE Ok([f \in names |-> resp_to_value(resp[2 * last(f)])])

\* The error of a command whose send failed: the connection's error, wrapped
\* as Error::Redis.
StoreFailure == Err("Redis", "IO")

\* serde_aux deserialize_number_from_string into a u64: a number, or a string
\* that parses as one.
deserialize_number_from_string(val) ==
    CASE val.kind = "Number" -> Ok(U64Of(val.dec))
      [] val.kind = "String" ->
            IF ParseU64(val.v).ok THEN Ok(U64Of(ParseU64(val.v).dec))
            ELSE Err("Unexpected", "deserialize")
      [] OTHER -> Err("Unexpected", "deserialize")

\* serde_aux deserialize_string_from_number: a string, or a number that fits
\* an i64, written back in decimal.
deserialize_string_from_number(val) ==
    CASE val.kind = "String" -> Ok(val.v)
      [] val.kind = "Number" ->
            IF DecLeq(val.dec, I64Max) THEN Ok(val.dec)
            ELSE Err("Unexpected", "deserialize")
      [] OTHER -> Err("Unexpected", "deserialize")

\* model::VoiceState decoded from the map: both fields are required, any other
\* field is ignored.
DecodeVoiceState(map) ==
    IF ~({"channel_id", "session_id"} \subseteq DOMAIN map)
    THEN Err("Unexpected", "deserialize")
    ELSE LET c == deserialize_number_from_string(map["channel_id"])
             sid == deserialize_string_from_number(map["session_id"])
         IN  IF c.tag = "Err" THEN c
             ELSE IF sid.tag = "Err" THEN sid
             ELSE Ok([channel_id |-> c.v, session_id |-> sid.v])

\* convert::<VoiceState>: a panic of create_hashmap is the call's outcome.
convert_VoiceState(resp) ==
    IF resp.kind # "Array" THEN Err("RESP", "Expected an array")
    ELSE LET map == create_hashmap(resp.v)
         IN  IF map.tag = "Panic" THEN map ELSE DecodeVoiceState(map.v)

\* serenity's Permissions: a number, or a string that parses as a u64. The
\* bits themselves are not modelled, only whether decoding succeeds.
deserialize_permissions(val) ==
    CASE val.kind = "Number" -> Ok(val.dec)
      [] val.kind = "String" ->
            IF ParseU64(val.v).ok THEN Ok(ParseU64(val.v).dec)
            ELSE Err("Unexpected", "deserialize")
      [] OTHER -> Err("Unexpected", "deserialize")

\* model::Role decoded from the map: both fields are required.
DecodeRole(map) ==
    IF ~({"name", "permissions"} \subseteq DOMAIN map)
    THEN Err("Unexpected", "deserialize")
    ELSE LET name == deserialize_string_from_number(map["name"])
             permissions == deserialize_permissions(map["permissions"])
         IN  IF name.tag = "Err" THEN name
             ELSE IF permissions.tag = "Err" THEN permissions
             ELSE Ok([name |-> name.v, permissions |-> permissions.v])

\* convert::<Role>: a panic of create_hashmap is the call's outcome.
convert_Role(resp) ==
    IF resp.kind # "Array" THEN Err("RESP", "Expected an array")
    ELSE LET map == create_hashmap(resp.v)
         IN  IF map.tag = "Panic" THEN map ELSE DecodeRole(map.v)

\* ------------------------------------------------------------------------
\* Voice states (cache.rs)
\* ------------------------------------------------------------------------

get_voice_state_decoding_empty(s, guild_id, user_id) ==
    LET reply == ReplyHGETALL(s, gen_user_voice_state(guild_id, user_id))
    IN  IF reply.kind = "Error" THEN Err("Redis", "Remote")
        ELSE LET got == convert_VoiceState(reply)
             IN  IF got.tag = "Panic" THEN got
                 ELSE IF got.tag = "Err" THEN Err("Redis", got.kind)
                 ELSE Ok(Some(got.v))

\* get_voice_state: Ok(None) for an empty hash, the decoded state otherwise.
\* An error of the materializer reaches the caller as Error::Redis, a panic of
\* it is the call's outcome.
get_voice_state(s, guild_id, user_id) ==
    LET reply == ReplyHGETALL(s, gen_user_voice_state(guild_id, user_id))
    IN  IF reply.kind = "Error" THEN Err("Redis", "Remote")
        ELSE IF reply.v = <<>> THEN Ok(None)
        ELSE LET got == convert_VoiceState(reply)
             IN  IF got.tag = "Panic" THEN got
                 ELSE IF got.tag = "Err" THEN Err("Redis", got.kind)
                 ELSE Ok(Some(got.v))

BoolArg(b) == FmtU64(IF b THEN 1 ELSE 0)

\* The hash fields upsert_voice_state writes: the token is written when
\* present and deleted from the hash when absent.
VoiceStateHashCmds(key, channel_id, state) ==
    LET values == <<"channel_id", FmtU64(channel_id),
                    "mute", BoolArg(state.mute),
                    "self_deaf", BoolArg(state.self_deaf),
                    "self_mute", BoolArg(state.self_mute),
                    "session_id", state.session_id,
                    "suppress", BoolArg(state.suppress)>>
    IN  IF state.token.some
        THEN <<Cmd("HMSET", key, values \o <<"token", state.token.v>>)>>
        ELSE <<Cmd("HDEL", key, <<"token">>), Cmd("HMSET", key, values)>>

LeaveOldChannelCmdsNever(old_state, channel_id, user_id) == <<>>

\* An old state in another channel: the user is removed from that channel's set.
LeaveOldChannelCmds(old_state, channel_id, user_id) ==
    IF old_state.some /\ old_state.v.channel_id # channel_id
    THEN <<Cmd("SREM", gen_channel_voice_states(old_state.v.channel_id),
               UsizeArgs(<<user_id>>))>>
    ELSE <<>>

add_member_inverted(old_state, channel_id) ==
    ~(old_state.some /\ old_state.v.channel_id # channel_id)

\* add_member: false only when the old state is in the same channel.
add_member(old_state, channel_id) ==
    ~(old_state.some /\ old_state.v.channel_id = channel_id)

ClearVoiceStateCmdsKeepingChannel(old_state, guild_id, user_id, key) ==
    <<Cmd("SREM", gen_guild_voice_states(guild_id), UsizeArgs(<<user_id>>)),
      Cmd("DEL", key, <<>>)>>

\* No channel id: the user leaves the old channel's set and the guild's set,
\* and the key is deleted.
ClearVoiceStateCmds(old_state, guild_id, user_id, key) ==
    (IF old_state.some
     THEN <<Cmd("SREM", gen_channel_voice_states(old_state.v.channel_id),
                UsizeArgs(<<user_id>>))>>
     ELSE <<>>)
    \o <<Cmd("SREM", gen_guild_voice_states(guild_id), UsizeArgs(<<user_id>>)),
         Cmd("DEL", key, <<>>)>>

\* The writes upsert_voice_state sends after it has read old_state, in order.
UpsertVoiceStateCmds(old_state, guild_id, state) ==
    LET user_id == state.user_id
        key == gen_user_voice_state(guild_id, user_id)
    IN  IF state.channel_id.some
        THEN LET channel_id == state.channel_id.v
             IN  VoiceStateHashCmds(key, channel_id, state)
                 \o LeaveOldChannelCmds(old_state, channel_id, user_id)
                 \o (IF add_member(old_state, channel_id)
                     THEN <<Cmd("SADD", gen_channel_voice_states(channel_id),
                                UsizeArgs(<<user_id>>))>>
                     ELSE <<>>)
        ELSE ClearVoiceStateCmds(old_state, guild_id, user_id, key)

upsert_voice_state_despite_failed_read(s, guild_id, state) ==
    LET old_state == get_voice_state(s, guild_id, state.user_id)
        old == IF old_state.tag # "Ok" THEN None ELSE old_state.v
    IN  [read |-> old_state, old |-> old,
         cmds |-> UpsertVoiceStateCmds(old, guild_id, state),
         ret |-> IF old_state.tag # "Ok" THEN old_state ELSE Ok("unit")]

\* upsert_voice_state once its HGETALL has been answered on store s: the reply
\* it awaited, the writes it then sends without awaiting any, and what it
\* returns. A failed read returns before any write, and so does a read that
\* panicked.
upsert_voice_state(s, guild_id, state) ==
    LET old_state == get_voice_state(s, guild_id, state.user_id)
    IN  IF old_state.tag # "Ok"
        THEN [read |-> old_state, old |-> None, cmds |-> <<>>, ret |-> old_state]
        ELSE [read |-> old_state, old |-> old_state.v,
              cmds |-> UpsertVoiceStateCmds(old_state.v, guild_id, state),
              ret |-> Ok("unit")]

DeleteVoiceStateCmdsCleaningChannels(guild_id, user_id) ==
    <<Cmd("DEL", gen_user_voice_state(guild_id, user_id), <<>>),
      Cmd("SREM", gen_guild_voice_states(guild_id), UsizeArgs(<<user_id>>)),
      Cmd("SREM", gen_channel_voice_states(4), UsizeArgs(<<user_id>>))>>

\* delete_voice_state: the DEL of the user's hash is sent unawaited, the SREM on
\* the guild's set is awaited. SREM answers with an integer, and into_array
\* panics on anything but an array.
DeleteVoiceStateCmds(guild_id, user_id) ==
    <<Cmd("DEL", gen_user_voice_state(guild_id, user_id), <<>>),
      Cmd("SREM", gen_guild_voice_states(guild_id), UsizeArgs(<<user_id>>))>>

delete_voice_state(s, guild_id, user_id) ==
    LET cmds == DeleteVoiceStateCmds(guild_id, user_id)
        deleted == ReplySREM(Exec(s, cmds[1]), cmds[2])
    IN  [store |-> ExecAll(s, cmds),
         ret |-> IF deleted.kind = "Error" THEN Err("Redis", "Remote")
                 ELSE IF deleted.kind = "Array" THEN Ok(Len(deleted.v) > 0)
                 ELSE Panic("Not a RESP array")]

\* get_voice_state_list: a GET of the guild's voice-state key, which holds a set.
get_voice_state_list(s, guild_id) ==
    LET resp == ReplyGET(s, gen_guild_voice_states(guild_id))
    IN  IF resp.kind = "Error" THEN Err("Redis", "Remote")
        ELSE IF resp.kind = "Nil" THEN Ok(<<>>)
        ELSE Err("Redis", "RESP")

\* delete_voice_states: a failed read of the list counts as an empty list.
DeleteVoiceStatesCmds(guild_id, ids) ==
    [i \in 1..Len(ids) |-> Cmd("DEL", gen_user_voice_state(guild_id, ids[i]), <<>>)]
    \o <<Cmd("DEL", gen_guild_voice_states(guild_id), <<>>)>>

\* delete_voice_states once its GET has been answered on store s: the reply it
\* awaited, the DELs it then sends without awaiting any, and what it returns.
delete_voice_states(s, guild_id) ==
    LET got == get_voice_state_list(s, guild_id)
        ids == IF got.tag = "Ok" THEN got.v ELSE <<>>
    IN  [read |-> got, cmds |-> DeleteVoiceStatesCmds(guild_id, ids),
         ret |-> Ok(Len(ids))]

RECURSIVE CollectVoiceStates(_, _, _)
\* The loop of get_voice_states: the first failed or absent state ends the call.
CollectVoiceStates(s, guild_id, ids) ==
    IF ids = <<>> THEN Ok(<<>>)
    ELSE LET state == get_voice_state(s, guild_id, Head(ids))
             rest == CollectVoiceStates(s, guild_id, Tail(ids))
         IN  IF state.tag # "Ok" THEN state
             ELSE IF ~state.v.some THEN Err("None", "none")
             ELSE IF rest.tag # "Ok" THEN rest
             ELSE Ok(<<<<Head(ids), state.v.v>>>> \o rest.v)

\* get_voice_states: the list of the guild's users, then each user's state; the
\* result maps each listed id to its state.
get_voice_states(s, guild_id) ==
    LET user_ids == get_voice_state_list(s, guild_id)
    IN  IF user_ids.tag = "Err" THEN user_ids
        ELSE LET got == CollectVoiceStates(s, guild_id, user_ids.v)
             IN  IF got.tag # "Ok" THEN got
                 ELSE Ok([id \in {got.v[i][1] : i \in 1..Len(got.v)} |->
                            LET i == CHOOSE j \in 1..Len(got.v) :
                                        /\ got.v[j][1] = id
                                        /\ \A k \in 1..Len(got.v) : got.v[k][1] = id => k <= j
                            IN  got.v[i][2]])

UpsertVoiceStateInfoCmds(guild_id, user_id, endpoint, token) ==
    <<Cmd("HMSET", gen_user_voice_state(guild_id, user_id),
          <<"endpoint", endpoint, "token", token>>)>>

DeleteGuildCmdsWithSets(id) ==
    <<Cmd("DEL", gen_guild(id), <<>>),
      Cmd("DEL", gen_guild_channels(id), <<>>),
      Cmd("DEL", gen_guild_features(id), <<>>),
      Cmd("DEL", gen_guild_members(id), <<>>),
      Cmd("DEL", gen_guild_roles(id), <<>>),
      Cmd("DEL", gen_guild_voice_states(id), <<>>)>>

DeleteGuildCmds(id) == <<Cmd("DEL", gen_guild(id), <<>>)>>

\* delete_guilds: delm_sync sends one DEL per id, in the order of the ids.
DeleteGuildsCmds(ids) == [i \in 1..Len(ids) |-> Cmd("DEL", gen_guild(ids[i]), <<>>)]

\* ------------------------------------------------------------------------
\* Guilds (cache.rs)
\* ------------------------------------------------------------------------

\* set_guild_channels, set_guild_features, set_guild_members, set_guild_roles,
\* set_guild_voice_states, set_member_roles, set_channel_voice_states: a DEL,
\* then an SADD that sadd_sync does not send for an empty list.
SetReplaceCmdsNoDel(key, members) ==
    IF members = <<>> THEN <<>> ELSE <<Cmd("SADD", key, members)>>

SetReplaceCmds(key, members) ==
    <<Cmd("DEL", key, <<>>)>>
    \o (IF members = <<>> THEN <<>> ELSE <<Cmd("SADD", key, members)>>)

set_channel_voice_states_adding(channel_id, user_ids) ==
    SetReplaceCmdsNoDel(gen_channel_voice_states(channel_id), UsizeArgs(user_ids))

set_channel_voice_states(channel_id, user_ids) ==
    SetReplaceCmds(gen_channel_voice_states(channel_id), UsizeArgs(user_ids))

set_guild_channels(guild_id, channel_ids) ==
    SetReplaceCmds(gen_guild_channels(guild_id), UsizeArgs(channel_ids))

set_guild_features(guild_id, features) ==
    SetReplaceCmds(gen_guild_features(guild_id), features)

set_guild_members_roles_key(guild_id, members) ==
    SetReplaceCmds(gen_guild_roles(guild_id), UsizeArgs(members))

set_guild_members(guild_id, members) ==
    SetReplaceCmds(gen_guild_members(guild_id), UsizeArgs(members))

set_guild_roles(guild_id, roles) ==
    SetReplaceCmds(gen_guild_roles(guild_id), UsizeArgs(roles))

set_guild_voice_states_adding(guild_id, voice_states) ==
    SetReplaceCmdsNoDel(gen_guild_voice_states(guild_id), UsizeArgs(voice_states))

set_guild_voice_states(guild_id, voice_states) ==
    SetReplaceCmds(gen_guild_voice_states(guild_id), UsizeArgs(voice_states))

set_member_roles(guild_id, user_id, roles) ==
    SetReplaceCmds(gen_member_roles(guild_id, user_id), UsizeArgs(roles))

\* upsert_member: with no nickname the field deleted from the member's hash is
\* "afk_channel_id".
upsert_member(member) ==
    LET guild_id == member.guild_id
        user_id == member.user_id
        set == <<"deaf", BoolArg(member.deaf), "mute", BoolArg(member.mute),
                 "user_id", FmtU64(user_id)>>
               \o (IF member.joined_at.some THEN <<"joined_at", member.joined_at.v>>
                   ELSE <<>>)
               \o (IF member.nick.some THEN <<"nick", member.nick.v>> ELSE <<>>)
    IN  (IF member.nick.some THEN <<>>
         ELSE <<Cmd("HDEL", gen_member(guild_id, user_id), <<"afk_channel_id">>)>>)
        \o <<Cmd("HMSET", gen_member(guild_id, user_id), set)>>
        \o set_member_roles(guild_id, user_id, member.roles)

upsert_role(guild_id, role) ==
    <<Cmd("HMSET", gen_role(guild_id, role.id),
          <<"colour", FmtU64(role.colour), "name", role.name,
            "permissions", FmtU64(role.permissions)>>)>>

RECURSIVE Flatten(_)
Flatten(seqs) == IF seqs = <<>> THEN <<>> ELSE Head(seqs) \o Flatten(Tail(seqs))

RECURSIVE Orders(_)
\* The orders in which one iteration over a HashMap or a HashSet may yield its
\* entries: the hasher is seeded at random, so any order of the entries.
Orders(S) ==
    IF S = {} THEN {<<>>}
    ELSE UNION {{<<x>> \o rest : rest \in Orders(S \ {x})} : x \in S}

\* The keys of a HashMap, in each order one iteration over it may yield them.
Keys(map) == Orders(DOMAIN map)

\* The channel ids some voice state of the snapshot names.
ChannelIds(guild) ==
    {guild.voice_states[u].channel_id.v :
        u \in {x \in DOMAIN guild.voice_states : guild.voice_states[x].channel_id.some}}

\* The orders of the iterations of one upsert_guild call: over guild.channels,
\* guild.members, guild.roles and guild.voice_states (keys() and values() of
\* one map yield the same order), and over the channel_states map it builds.
IterationOrders(guild) ==
    [channels : Orders(guild.channels),
     members : Keys(guild.members),
     roles : Keys(guild.roles),
     voice_states : Keys(guild.voice_states),
     channel_states : Orders(ChannelIds(guild))]

\* The snapshot's voice states grouped by channel id: the users of channel cid,
\* in the order us in which the fold has met them.
ChannelStates(guild, us, cid) ==
    SelectSeq(us, LAMBDA u : /\ guild.voice_states[u].channel_id.some
                             /\ guild.voice_states[u].channel_id.v = cid)

\* The writes upsert_guild sends, in order, when its iterations yield the orders
\* ord. The futures of the upsert_voice_state calls at its end are dropped
\* without being polled: they send nothing.
UpsertGuildCmds(guild, ord) ==
    LET gid == guild.id
        set == <<"name", guild.name, "owner_id", FmtU64(guild.owner_id),
                 "region", guild.region>>
        ms == ord.members
        rs == ord.roles
        us == ord.voice_states
        cids == ord.channel_states
    IN  (IF guild.afk_channel_id.some
         THEN <<Cmd("HMSET", gen_guild(gid),
                    set \o <<"afk_channel_id", FmtU64(guild.afk_channel_id.v)>>)>>
         ELSE <<Cmd("HMSET", gen_guild(gid), set),
                Cmd("HDEL", gen_guild(gid), <<"afk_channel_id">>)>>)
        \o set_guild_channels(gid, ord.channels)
        \o set_guild_features(gid, guild.features)
        \o set_guild_members(gid, ms)
        \o Flatten([i \in 1..Len(ms) |-> upsert_member(guild.members[ms[i]])])
        \o set_guild_roles(gid, rs)
        \o Flatten([i \in 1..Len(rs) |-> upsert_role(gid, guild.roles[rs[i]])])
        \o set_guild_voice_states(gid, us)
        \o Flatten([i \in 1..Len(cids) |->
                      set_channel_voice_states(cids[i], ChannelStates(guild, us, cids[i]))])

\* A JSON array of numbers as a HashSet<u64>.
DecodeU64Set(val) ==
    IF val.kind # "Array" \/ \E i \in 1..Len(val.v) : val.v[i].kind # "Number"
    THEN Err("Unexpected", "deserialize")
    ELSE Ok({DecToNat(val.v[i].dec) : i \in 1..Len(val.v)})

\* A JSON array of strings as a HashSet<String>.
DecodeStringSet(val) ==
    IF val.kind # "Array" \/ \E i \in 1..Len(val.v) : val.v[i].kind # "String"
    THEN Err("Unexpected", "deserialize")
    ELSE Ok({val.v[i].v : i \in 1..Len(val.v)})

\* model::Guild decoded from the map: every field but afk_channel_id is required.
DecodeGuild(map) ==
    LET need == {"channels", "features", "members", "name", "owner_id", "region",
                 "roles", "voice_states"}
        bad == Err("Unexpected", "deserialize")
    IN  IF ~(need \subseteq DOMAIN map) THEN bad
        ELSE LET afk == IF "afk_channel_id" \notin DOMAIN map
                           \/ map["afk_channel_id"].kind = "Null" THEN Ok(None)
                        ELSE IF map["afk_channel_id"].kind = "Number"
                             THEN Ok(Some(DecToNat(map["afk_channel_id"].dec)))
                             ELSE bad
                 channels == DecodeU64Set(map["channels"])
                 features == DecodeStringSet(map["features"])
                 members == DecodeU64Set(map["members"])
                 owner == deserialize_number_from_string(map["owner_id"])
                 roles == DecodeU64Set(map["roles"])
                 voice_states == DecodeU64Set(map["voice_states"])
             IN  IF \/ afk.tag = "Err" \/ channels.tag = "Err" \/ features.tag = "Err"
                    \/ members.tag = "Err" \/ owner.tag = "Err" \/ roles.tag = "Err"
                    \/ voice_states.tag = "Err"
                    \/ map["name"].kind # "String" \/ map["region"].kind # "String"
                 THEN bad
                 ELSE Ok([afk_channel_id |-> afk.v, channels |-> channels.v,
                          features |-> features.v, members |-> members.v,
                          name |-> map["name"].v, owner_id |-> owner.v,
                          region |-> map["region"].v, roles |-> roles.v,
                          voice_states |-> voice_states.v])

\* The five sets get_guild reads after the guild's hash, in the order of its
\* SMEMBERS, each with the field name its reply is pushed under.
GuildSets(id) ==
    <<[field |-> "channels", key |-> gen_guild_channels(id)],
      [field |-> "features", key |-> gen_guild_features(id)],
      [field |-> "members", key |-> gen_guild_members(id)],
      [field |-> "roles", key |-> gen_guild_roles(id)],
      [field |-> "voice_states", key |-> gen_guild_voice_states(id)]>>

\* get_guild with the reply to its HGETALL and the replies to its first
\* Len(sets) SMEMBERS in hand: whether the call ends here, and with what. An
\* error reply ends it, an empty hash is Error::None, and with the five sets in
\* hand they are pushed onto the flattened hash as array fields and the whole
\* is decoded as one record; a panic of create_hashmap is the call's outcome.
get_guild_with(id, values, sets) ==
    IF values.kind = "Error" THEN [done |-> TRUE, ret |-> Err("Redis", "Remote")]
    ELSE IF values.v = <<>> THEN [done |-> TRUE, ret |-> Err("None", "none")]
    ELSE IF \E i \in 1..Len(sets) : sets[i].kind = "Error"
         THEN [done |-> TRUE, ret |-> Err("Redis", "Remote")]
    ELSE IF Len(sets) < Len(GuildSets(id)) THEN [done |-> FALSE]
    ELSE LET all == values.v
                    \o Flatten([i \in 1..Len(sets) |->
                                  <<BulkString(GuildSets(id)[i].field), sets[i]>>])
             map == create_hashmap(all)
             got == IF map.tag = "Panic" THEN map ELSE DecodeGuild(map.v)
         IN  [done |-> TRUE,
              ret |-> IF got.tag = "Err" THEN Err("Redis", got.kind) ELSE got]

\* get_guild with all six reads answered on the same store s.
get_guild(s, id) ==
    get_guild_with(id, ReplyHGETALL(s, gen_guild(id)),
                   [i \in 1..Len(GuildSets(id)) |->
                       ReplySMEMBERS(s, GuildSets(id)[i].key)]).ret

\* ------------------------------------------------------------------------
\* Inputs
\* ------------------------------------------------------------------------

Guilds == {1}

Users == 9..(8 + NumUsers)

Channels == 4..(3 + NumChannels)

RoleIds == {6}

ChannelOpts == {None} \cup {Some(c) : c \in Channels}

\* Session id, token and flags of the voice states the events carry.
VoiceProfiles ==
    {[session_id |-> <<"s", "1">>, token |-> None, mute |-> FALSE,
      self_deaf |-> FALSE, self_mute |-> FALSE, suppress |-> FALSE],
     [session_id |-> <<"0", "7">>, token |-> Some(<<"t">>), mute |-> TRUE,
      self_deaf |-> FALSE, self_mute |-> TRUE, suppress |-> FALSE]}

MkVoiceState(u, c, p) ==
    [user_id |-> u, channel_id |-> c, session_id |-> p.session_id,
     token |-> p.token, mute |-> p.mute, self_deaf |-> p.self_deaf,
     self_mute |-> p.self_mute, suppress |-> p.suppress]

VoiceStates == {MkVoiceState(u, c, p) : u \in Users, c \in ChannelOpts, p \in VoiceProfiles}

PlainProfile == CHOOSE p \in VoiceProfiles : ~p.token.some

\* The voice-state maps of guild snapshots: no user, one user in a channel or in
\* none, or every user in a channel.
VoiceStateMaps ==
    UNION {[us -> ChannelOpts] : us \in {s \in SUBSET Users : Cardinality(s) <= 1}}
        \cup [Users -> {Some(c) : c \in Channels}]

MkVoiceStateMap(m) == [u \in DOMAIN m |-> MkVoiceState(u, m[u], PlainProfile)]

MkMember(g, u, nick, roles) ==
    [guild_id |-> g, user_id |-> u, deaf |-> FALSE, mute |-> FALSE,
     joined_at |-> None, nick |-> nick, roles |-> roles]

MkRole(r) == [id |-> r, colour |-> 1, name |-> <<"a", " ", "r">>, permissions |-> 8]

MkGuild(g, name, afk, channels, features, members, roles, voice) ==
    [id |-> g, name |-> name, owner_id |-> 9, region |-> <<"u", "s">>,
     afk_channel_id |-> afk, channels |-> channels, features |-> features,
     members |-> members, roles |-> roles, voice_states |-> MkVoiceStateMap(voice)]

NoMembers == [u \in {} |-> None]

NoRoles == [r \in {} |-> None]

PlainName == <<"a", " ", "g">>

\* Snapshots that differ in their voice states only.
VoiceSnapshots ==
    {MkGuild(g, PlainName, None, {}, <<>>, NoMembers, NoRoles, v) :
        g \in Guilds, v \in VoiceStateMaps}

\* Member maps of guild snapshots: some users, each without a nickname and
\* without roles, or with both.
MemberMaps(g) ==
    UNION {[us -> {MkMember(g, 0, None, <<>>),
                   MkMember(g, 0, Some(<<"n">>), SetToSeq(RoleIds))}] :
             us \in SUBSET Users}

MkMemberMap(m) == [u \in DOMAIN m |-> [m[u] EXCEPT !.user_id = u]]

RoleMaps == UNION {[rs -> {0}] : rs \in SUBSET RoleIds}

MkRoleMap(m) == [r \in DOMAIN m |-> MkRole(r)]

FeatureLists == {<<>>, <<<<"F">>>>, <<<<"F">>, <<"7">>>>}

GuildNames == {PlainName, <<"1", "2">>}

AfkOpts == {None, Some(12)}

\* The voice-state maps of the snapshots shaped as the one of tests/guild.rs: no
\* user, one user in a channel or in none, or the users spread over the channels.
TestVoiceStateMaps ==
    {m \in VoiceStateMaps : Cardinality(DOMAIN m) <= 1}
        \cup {[u \in Users |-> Some(4 + ((u - 9) % NumChannels))]}

\* Snapshots that differ from a plain one in one aspect, and snapshots shaped as
\* the one of tests/guild.rs: members without nickname holding a role, each
\* with a voice state.
GuildSnapshotsOf(g) ==
    LET plain(gid, name, afk, cs, fs, ms, rs) ==
            MkGuild(gid, name, afk, cs, fs, MkMemberMap(ms), MkRoleMap(rs),
                    [u \in {} |-> None])
    IN  UNION {
          {plain(g, PlainName, None, cs, <<>>, NoMembers, NoRoles) :
              cs \in SUBSET Channels},
          {plain(g, PlainName, None, {}, fs, NoMembers, NoRoles) : fs \in FeatureLists},
          {plain(g, PlainName, None, {}, <<>>, NoMembers, rs) : rs \in RoleMaps},
          {plain(g, name, afk, {}, <<>>, NoMembers, NoRoles) :
              name \in GuildNames, afk \in AfkOpts},
          {plain(g, PlainName, None, {}, <<>>, ms, NoRoles) : ms \in MemberMaps(g)},
          {MkGuild(g, PlainName, Some(12), Channels, <<>>,
                   [u \in DOMAIN v |-> MkMember(g, u, None, SetToSeq(RoleIds))],
                   MkRoleMap([r \in RoleIds |-> 0]), v) : v \in TestVoiceStateMaps}}

GuildSnapshots == UNION {GuildSnapshotsOf(g) : g \in Guilds}

\* ------------------------------------------------------------------------
\* State
\* ------------------------------------------------------------------------

VARIABLES
    store,  \* the Redis keyspace: key -> set, hash or list
    last,   \* what the last step was: the call that ended in it and what it
            \* returned, or a write of a call still in progress
    tasks,  \* the calls in progress: awaiting a reply, or their writes being applied
    overlap \* whether some call has started or written while another was in progress

vars == <<store, last, tasks, overlap>>

IdleTask == [pc |-> "idle"]

Init ==
    /\ store = EmptyStore
    /\ last = [op |-> "new"]
    /\ tasks = [t \in 1..MaxTasks |-> IdleTask]
    /\ overlap = FALSE

AllIdle == \A t \in 1..MaxTasks : tasks[t].pc = "idle"

\* The writes each call in progress has sent that the server has not applied.
PendingWrites ==
    [t \in 1..MaxTasks |->
        IF tasks[t].pc \in {"writing", "upserting_guild"} THEN Len(tasks[t].cmds) ELSE 0]

\* ------------------------------------------------------------------------
\* Calls that await a read and then send their writes
\* ------------------------------------------------------------------------

\* The reply to the call's read is served and the call resumes: it returns at
\* once (a failed read), or it sends its writes without awaiting them, to be
\* applied later, each in its turn. Other calls run in between.
Resume(t, call, cmds) ==
    /\ tasks[t].pc = "idle"
    /\ overlap' = (overlap \/ ~AllIdle)
    /\ IF cmds = <<>>
       THEN /\ last' = call
            /\ UNCHANGED <<store, tasks>>
       ELSE /\ tasks' = [tasks EXCEPT ![t] = [pc |-> "writing", call |-> call,
                                             cmds |-> cmds]]
            /\ UNCHANGED <<store, last>>

\* upsert_voice_state: the HGETALL of the old state is answered on the store as
\* it is now, and the writes are decided on that reply.
CallUpsertVoiceState(t, guild_id, state) ==
    LET r == upsert_voice_state(store, guild_id, state)
    IN  Resume(t, [op |-> "upsert_voice_state", guild_id |-> guild_id,
                   state |-> state, read |-> r.read, old |-> r.old,
                   sent |-> Len(r.cmds), ret |-> r.ret],
               r.cmds)

\* delete_voice_states: the GET of the guild's voice-state list is answered on
\* the store as it is now, and the DELs are decided on that reply.
CallDeleteVoiceStates(t, guild_id) ==
    LET r == delete_voice_states(store, guild_id)
    IN  Resume(t, [op |-> "delete_voice_states", guild_id |-> guild_id,
                   before |-> Members(store, gen_guild_voice_states(guild_id)),
                   read |-> r.read, ret |-> r.ret],
               r.cmds)

\* The server applies the next write of call t; with its last write applied the
\* call is over.
ApplyWrite(t) ==
    /\ tasks[t].pc = "writing"
    /\ store' = Exec(store, Head(tasks[t].cmds))
    /\ IF Len(tasks[t].cmds) = 1
       THEN /\ tasks' = [tasks EXCEPT ![t] = IdleTask]
            /\ last' = tasks[t].call
       ELSE /\ tasks' = [tasks EXCEPT ![t] = [tasks[t] EXCEPT !.cmds = Tail(tasks[t].cmds)]]
            /\ last' = [op |-> "write", of |-> tasks[t].call.op]
    /\ UNCHANGED overlap

\* ------------------------------------------------------------------------
\* get_guild: six reads, each awaited
\* ------------------------------------------------------------------------

\* The HGETALL of the guild's hash is answered: an error or an empty hash ends
\* the call, any other reply is kept for the end.
CallGetGuild(t, id) ==
    LET values == ReplyHGETALL(store, gen_guild(id))
        r == get_guild_with(id, values, <<>>)
    IN  /\ tasks[t].pc = "idle"
        /\ IF r.done
           THEN /\ last' = [op |-> "get_guild", id |-> id, ret |-> r.ret,
                            had_hash |-> Exists(store, gen_guild(id)),
                            pending |-> PendingWrites]
                /\ UNCHANGED tasks
           ELSE /\ tasks' = [tasks EXCEPT ![t] =
                               [pc |-> "reading", id |-> id, values |-> values,
                                sets |-> <<>>]]
                /\ UNCHANGED last
        /\ UNCHANGED <<store, overlap>>

\* The next SMEMBERS of get_guild is answered on the store as it is now; the
\* call ends on an error reply and with the fifth set.
ReadGuildSet(t) ==
    /\ tasks[t].pc = "reading"
    /\ LET id == tasks[t].id
           sets == Append(tasks[t].sets,
                          ReplySMEMBERS(store, GuildSets(id)[Len(tasks[t].sets) + 1].key))
           r == get_guild_with(id, tasks[t].values, sets)
       IN  IF r.done
           THEN /\ last' = [op |-> "get_guild", id |-> id, ret |-> r.ret,
                            had_hash |-> TRUE, pending |-> PendingWrites]
                /\ tasks' = [tasks EXCEPT ![t] = IdleTask]
           ELSE /\ tasks' = [tasks EXCEPT ![t] = [tasks[t] EXCEPT !.sets = sets]]
                /\ UNCHANGED last
    /\ UNCHANGED <<store, overlap>>

\* ------------------------------------------------------------------------
\* Calls without an await between their commands: on the connection of the
\* cache their commands are served one after the other
\* ------------------------------------------------------------------------

UpsertVoiceStateInfo(guild_id, user_id, endpoint, token) ==
    /\ store' = ExecAll(store, UpsertVoiceStateInfoCmds(guild_id, user_id, endpoint, token))
    /\ last' = [op |-> "upsert_voice_state_info", guild_id |-> guild_id,
                user_id |-> user_id]
    /\ overlap' = (overlap \/ ~AllIdle)
    /\ UNCHANGED tasks

DeleteVoiceState(guild_id, user_id) ==
    LET r == delete_voice_state(store, guild_id, user_id)
    IN  /\ store' = r.store
        /\ last' = [op |-> "delete_voice_state", guild_id |-> guild_id,
                    user_id |-> user_id, ret |-> r.ret,
                    had_state |-> Exists(store, gen_user_voice_state(guild_id, user_id))]
        /\ overlap' = (overlap \/ ~AllIdle)
        /\ UNCHANGED tasks

\* upsert_guild, its iterations yielding their entries in any order.
UpsertGuild(guild) ==
    \E ord \in IterationOrders(guild) :
        /\ store' = ExecAll(store, UpsertGuildCmds(guild, ord))
        /\ last' = [op |-> "upsert_guild", guild |-> guild, ret |-> Ok("unit")]
        /\ overlap' = (overlap \/ ~AllIdle)
        /\ UNCHANGED tasks

DeleteGuild(id) ==
    /\ store' = ExecAll(store, DeleteGuildCmds(id))
    /\ last' = [op |-> "delete_guild", id |-> id]
    /\ overlap' = (overlap \/ ~AllIdle)
    /\ UNCHANGED tasks

DeleteGuilds(ids) ==
    /\ store' = ExecAll(store, DeleteGuildsCmds(ids))
    /\ last' = [op |-> "delete_guilds", ids |-> ids]
    /\ overlap' = (overlap \/ ~AllIdle)
    /\ UNCHANGED tasks

GetVoiceState(guild_id, user_id) ==
    /\ last' = [op |-> "get_voice_state", guild_id |-> guild_id, user_id |-> user_id,
                ret |-> get_voice_state(store, guild_id, user_id)]
    /\ UNCHANGED <<store, tasks, overlap>>

\* ------------------------------------------------------------------------
\* Specifications
\* ------------------------------------------------------------------------

\* Calls of upsert_voice_state only, from the empty store, run one at a time:
\* each call's writes are applied before the next call starts.
NextVoice ==
    \/ \E g \in Guilds, st \in VoiceStates : CallUpsertVoiceState(1, g, st)
    \/ ApplyWrite(1)

SpecVoice == Init /\ [][NextVoice]_vars

\* The voice states without a token.
PlainStates == {MkVoiceState(u, c, PlainProfile) : u \in Users, c \in ChannelOpts}

\* The operations on voice states and guild snapshots: one awaiting call in
\* progress at a time, every other call running between its read and its writes
\* and between two of its writes. A behaviour is followed up to its first
\* overlap: the call in progress then has its writes applied and no further call
\* starts.
Next ==
    \/ \E g \in Guilds, st \in PlainStates : ~overlap /\ CallUpsertVoiceState(1, g, st)
    \/ \E g \in Guilds : ~overlap /\ CallDeleteVoiceStates(1, g)
    \/ ApplyWrite(1)
    \/ \E g \in Guilds, u \in Users : ~overlap /\ DeleteVoiceState(g, u)
    \/ \E guild \in VoiceSnapshots : ~overlap /\ UpsertGuild(guild)

Spec == Init /\ [][Next]_vars

\* The lists of guild ids given to delete_guilds.
GuildIdLists == {<<>>} \cup {<<g>> : g \in Guilds} \cup {<<g, g>> : g \in Guilds}

\* Whole-guild snapshots and the deletion of guilds.
NextGuild ==
    \/ \E guild \in GuildSnapshots : UpsertGuild(guild)
    \/ \E g \in Guilds : DeleteGuild(g)
    \/ \E ids \in GuildIdLists : DeleteGuilds(ids)

SpecGuild == Init /\ [][NextGuild]_vars

\* ------------------------------------------------------------------------
\* Concurrent calls of upsert_voice_state for one user
\* ------------------------------------------------------------------------

ConcUser == CHOOSE u \in Users : \A v \in Users : u <= v

ConcStates == {MkVoiceState(ConcUser, c, PlainProfile) : c \in ChannelOpts}

NextConc ==
    \/ \E t \in 1..MaxTasks, g \in Guilds, st \in ConcStates : CallUpsertVoiceState(t, g, st)
    \/ \E t \in 1..MaxTasks : ApplyWrite(t)

SpecConc == Init /\ [][NextConc]_vars

\* ------------------------------------------------------------------------
\* upsert_guild, one write at a time
\* ------------------------------------------------------------------------

\* Snapshots shaped as the one of tests/guild.rs, with or without an AFK
\* channel: every user of the voice-state map is a member holding the role.
OrderSnapshots ==
    {MkGuild(g, PlainName, afk, Channels, <<>>,
             [u \in DOMAIN v |-> MkMember(g, u, None, SetToSeq(RoleIds))],
             MkRoleMap([r \in RoleIds |-> 0]), v) :
        g \in Guilds, afk \in AfkOpts, v \in VoiceStateMaps}

\* upsert_guild sends its writes without awaiting any of them and returns; the
\* server applies them later, in the order they were sent.
CallUpsertGuild(t, guild) ==
    /\ tasks[t].pc = "idle"
    /\ \E ord \in IterationOrders(guild) :
          tasks' = [tasks EXCEPT ![t] =
                       [pc |-> "upserting_guild", guild |-> guild,
                        cmds |-> UpsertGuildCmds(guild, ord), done |-> <<>>]]
    /\ UNCHANGED <<store, last, overlap>>

\* The server applies the next write of the upsert_guild call t.
ApplyGuildWrite(t) ==
    /\ tasks[t].pc = "upserting_guild"
    /\ tasks[t].cmds # <<>>
    /\ store' = Exec(store, Head(tasks[t].cmds))
    /\ tasks' = [tasks EXCEPT ![t] =
                    [tasks[t] EXCEPT !.cmds = Tail(tasks[t].cmds),
                                     !.done = Append(tasks[t].done, Head(tasks[t].cmds))]]
    /\ UNCHANGED <<last, overlap>>

\* All writes of the call are applied.
FinishUpsertGuild(t) ==
    /\ tasks[t].pc = "upserting_guild"
    /\ tasks[t].cmds = <<>>
    /\ tasks' = [tasks EXCEPT ![t] = IdleTask]
    /\ last' = [op |-> "upsert_guild", guild |-> tasks[t].guild, ret |-> Ok("unit")]
    /\ UNCHANGED <<store, overlap>>

NextOrder ==
    \/ \E guild \in OrderSnapshots : CallUpsertGuild(1, guild)
    \/ ApplyGuildWrite(1)
    \/ FinishUpsertGuild(1)

SpecOrder == Init /\ [][NextOrder]_vars

\* ------------------------------------------------------------------------
\* Writes, deletions and reads of a guild and of one user's voice state
\* ------------------------------------------------------------------------

\* Snapshots with or without channels, with a plain or numeric-looking name.
ReadSnapshots ==
    {MkGuild(g, name, None, cs, <<>>, NoMembers, NoRoles, [u \in {} |-> None]) :
        g \in Guilds, name \in GuildNames, cs \in {{}, Channels}}

\* One awaiting call in progress at a time, every other call running between
\* its steps.
NextRead ==
    \/ \E g \in Guilds, st \in ConcStates : CallUpsertVoiceState(1, g, st)
    \/ ApplyWrite(1)
    \/ \E g \in Guilds : DeleteVoiceState(g, ConcUser)
    \/ \E g \in Guilds : GetVoiceState(g, ConcUser)
    \/ \E guild \in ReadSnapshots : UpsertGuild(guild)
    \/ \E g \in Guilds : DeleteGuild(g)
    \/ \E g \in Guilds : CallGetGuild(1, g)
    \/ ReadGuildSet(1)

SpecRead == Init /\ [][NextRead]_vars

\* ------------------------------------------------------------------------
\* One user's voice state with the voice server's endpoint and token
\* ------------------------------------------------------------------------

\* The states of one user, with and without a token.
InfoStates == {MkVoiceState(ConcUser, c, p) : c \in ChannelOpts, p \in VoiceProfiles}

InfoEndpoint == <<"e">>

InfoToken == <<"k">>

NextInfo ==
    \/ \E g \in Guilds, st \in InfoStates : CallUpsertVoiceState(1, g, st)
    \/ ApplyWrite(1)
    \/ \E g \in Guilds : UpsertVoiceStateInfo(g, ConcUser, InfoEndpoint, InfoToken)
    \/ \E g \in Guilds : DeleteVoiceState(g, ConcUser)
    \/ \E g \in Guilds : GetVoiceState(g, ConcUser)

SpecInfo == Init /\ [][NextInfo]_vars

\* ------------------------------------------------------------------------
\* Reads by another client while the writes of a call are being applied
\* ------------------------------------------------------------------------

\* Snapshots whose voice states are those of one user.
ObserveSnapshots ==
    {MkGuild(g, PlainName, None, {}, <<>>, NoMembers, NoRoles, v) :
        g \in Guilds, v \in UNION {[us -> ChannelOpts] : us \in SUBSET {ConcUser}}}

\* get_voice_state by a client of its own connection; how far the calls in
\* progress were at the time of the read is kept with its result.
ReadVoiceState(guild_id, user_id) ==
    /\ last' = [op |-> "get_voice_state", guild_id |-> guild_id, user_id |-> user_id,
                ret |-> get_voice_state(store, guild_id, user_id),
                pending |-> PendingWrites]
    /\ UNCHANGED <<store, tasks, overlap>>

\* One call of upsert_guild (slot 1) or upsert_voice_state (slot 2) at a time,
\* its writes applied one by one, and reads by another client at any moment:
\* get_voice_state, and get_guild (slot 2) read by read.
NextObserve ==
    \/ \E guild \in ObserveSnapshots : tasks[2].pc # "writing" /\ CallUpsertGuild(1, guild)
    \/ ApplyGuildWrite(1)
    \/ FinishUpsertGuild(1)
    \/ \E g \in Guilds, st \in ConcStates : AllIdle /\ CallUpsertVoiceState(2, g, st)
    \/ ApplyWrite(2)
    \/ \E g \in Guilds : CallGetGuild(2, g)
    \/ ReadGuildSet(2)
    \/ \E g \in Guilds : ReadVoiceState(g, ConcUser)

SpecObserve == Init /\ [][NextObserve]_vars

\* ------------------------------------------------------------------------
\* Writing and reading back a voice state and a guild
\* ------------------------------------------------------------------------

NextRoundTrip ==
    \/ \E g \in Guilds, st \in InfoStates : CallUpsertVoiceState(1, g, st)
    \/ ApplyWrite(1)
    \/ \E g \in Guilds : GetVoiceState(g, ConcUser)
    \/ \E guild \in ReadSnapshots : UpsertGuild(guild)
    \/ \E g \in Guilds : CallGetGuild(1, g)
    \/ ReadGuildSet(1)

SpecRoundTrip == Init /\ [][NextRoundTrip]_vars

\* ------------------------------------------------------------------------
\* Materializing a VoiceState or a Role from a flattened reply (model.rs)
\* ------------------------------------------------------------------------

\* 9223372036854775808, one more than i64::MAX
I64MaxPlusOne ==
    <<"9","2","2","3","3","7","2","0","3","6","8","5","4","7","7","5","8","0","8">>

\* 18446744073709551616, one more than u64::MAX
U64MaxPlusOne ==
    <<"1","8","4","4","6","7","4","4","0","7","3","7","0","9","5","5","1","6","1","6">>

\* The values of model.rs's tests and the edges of the integer types.
FieldValues ==
    { <<"t","e","s","t">>,
      <<"0","1","2","3","4","5","6">>,
      <<"8">>,
      <<"5">> \o [i \in 1..17 |-> "0"],
      [i \in 1..32 |-> "1"],
      I64Max, I64MaxPlusOne, U64Max, U64MaxPlusOne }

\* Every hash over some of the names, with values among FieldValues.
FieldMaps(names) == UNION {[D -> FieldValues] : D \in SUBSET names}

WithToken(h) ==
    [f \in DOMAIN h \cup {"token"} |-> IF f = "token" THEN <<"4","5","0","d">> ELSE h[f]]

VoiceStateReplies ==
    FieldMaps({"channel_id", "session_id"})
        \cup {WithToken(h) : h \in FieldMaps({"channel_id", "session_id"})}

RoleReplies == FieldMaps({"name", "permissions"})

FromRespVoiceState(h) ==
    /\ last' = [op |-> "from_resp", type |-> "VoiceState", fields |-> h,
                ret |-> convert_VoiceState(Array(FlattenFields(h, FieldOrder)))]
    /\ UNCHANGED <<store, tasks, overlap>>

FromRespRole(h) ==
    /\ last' = [op |-> "from_resp", type |-> "Role", fields |-> h,
                ret |-> convert_Role(Array(FlattenFields(h, FieldOrder)))]
    /\ UNCHANGED <<store, tasks, overlap>>

NextMaterialize ==
    \/ \E h \in VoiceStateReplies : FromRespVoiceState(h)
    \/ \E h \in RoleReplies : FromRespRole(h)

SpecMaterialize == Init /\ [][NextMaterialize]_vars

\* ------------------------------------------------------------------------
\* LoopMode and its stored form (model.rs)
\* ------------------------------------------------------------------------

LOOPING_QUEUE_ENCODED == <<"L", "Q">>

LOOPING_SONG_ENCODED == <<"L", "S">>

LOOPING_OFF_ENCODED == <<"O", "F">>

LoopingQueue == [tag |-> "LoopingQueue"]

LoopingSong == [tag |-> "LoopingSong"]

Off == [tag |-> "Off"]

\* An isize (64 bits wide) is kept as its sign and the canonical decimal of its
\* magnitude; zero has no sign.
Isize(neg, dec) == [neg |-> neg /\ dec # <<"0">>, dec |-> dec]

LoopingRange(n) == [tag |-> "LoopingRange", range |-> n]

FmtIsizeUnsigned(n) == n.dec

\* format!("{}", range): a "-" for a negative number, then its digits.
FmtIsize(n) == IF n.neg THEN <<"-">> \o n.dec ELSE n.dec

\* value.parse::<isize>(): an optional "+" or "-", one or more digits, and a
\* value from isize::MIN to isize::MAX.
ParseIsize(s) ==
    LET signed == Len(s) > 0 /\ s[1] \in {"+", "-"}
        neg == Len(s) > 0 /\ s[1] = "-"
        body == IF signed THEN Tail(s) ELSE s
    IN  IF Len(body) = 0 \/ ~AllDigits(body) THEN [ok |-> FALSE]
        ELSE IF ~DecLeq(StripZeros(body), IF neg THEN I64MaxPlusOne ELSE I64Max)
             THEN [ok |-> FALSE]
        ELSE [ok |-> TRUE, v |-> Isize(neg, StripZeros(body))]

\* impl Into<String> for LoopMode
LoopModeInto(mode) ==
    CASE mode.tag = "LoopingQueue" -> LOOPING_QUEUE_ENCODED
      [] mode.tag = "LoopingSong" -> LOOPING_SONG_ENCODED
      [] mode.tag = "Off" -> LOOPING_OFF_ENCODED
      [] mode.tag = "LoopingRange" -> FmtIsize(mode.range)

\* impl TryFrom<String> for LoopMode: a failed parse is Error::ParseInt.
LoopModeTryFrom(value) ==
    IF value = LOOPING_QUEUE_ENCODED THEN Ok(LoopingQueue)
    ELSE IF value = LOOPING_SONG_ENCODED THEN Ok(LoopingSong)
    ELSE IF value = LOOPING_OFF_ENCODED THEN Ok(Off)
    ELSE IF ParseIsize(value).ok THEN Ok(LoopingRange(ParseIsize(value).v))
    ELSE Err("ParseInt", "invalid")

\* Ranges around zero and at both ends of isize.
Ranges ==
    {Isize(neg, FmtU64(k)) : neg \in BOOLEAN, k \in 0..20}
        \cup {Isize(FALSE, I64Max), Isize(TRUE, I64Max), Isize(TRUE, I64MaxPlusOne)}

LoopModes == {LoopingQueue, LoopingSong, Off} \cup {LoopingRange(n) : n \in Ranges}

CodeChars == {"L", "Q", "-", "+", "0", "7"}

\* Stored strings: every string of up to three CodeChars, the three codes, the
\* strings of model.rs's test, and integers at and beyond the ends of isize.
StoredStrings ==
    {<<>>} \cup {<<a>> : a \in CodeChars}
           \cup {<<a, b>> : a, b \in CodeChars}
           \cup {<<a, b, c>> : a, b, c \in CodeChars}
           \cup {LOOPING_QUEUE_ENCODED, LOOPING_SONG_ENCODED, LOOPING_OFF_ENCODED,
                 <<"1", "0", "0">>,
                 <<"e","r","r","o","r"," ","m","e"," ","p","l","s">>,
                 <<"l", "q">>, <<"1", ".", "5">>, <<" ", "1">>,
                 I64Max, I64MaxPlusOne, <<"-">> \o I64MaxPlusOne,
                 <<"-">> \o <<"9","2","2","3","3","7","2","0","3","6","8","5","4","7","7","5","8","0","9">>}

\* A mode is encoded and the string decoded again.
EncodeDecode(mode) ==
    /\ last' = [op |-> "encode_decode", mode |-> mode, encoded |-> LoopModeInto(mode),
                ret |-> LoopModeTryFrom(LoopModeInto(mode))]
    /\ UNCHANGED <<store, tasks, overlap>>

\* A stored string is decoded.
Decode(value) ==
    /\ last' = [op |-> "try_from", value |-> value, ret |-> LoopModeTryFrom(value)]
    /\ UNCHANGED <<store, tasks, overlap>>

NextLoopMode ==
    \/ \E mode \in LoopModes : EncodeDecode(mode)
    \/ \E value \in StoredStrings : Decode(value)

SpecLoopMode == Init /\ [][NextLoopMode]_vars

\* ------------------------------------------------------------------------
\* The choice list of a guild (cache.rs)
\* ------------------------------------------------------------------------

\* The items of the list at k (a missing key has none).
Items(s, k) == IF HasType(s, k, "list") THEN s[k].items ELSE <<>>

RECURSIVE Reverse(_)
Reverse(xs) == IF xs = <<>> THEN <<>> ELSE Reverse(Tail(xs)) \o <<Head(xs)>>

\* The list push behind push_choices. cache.rs calls self.inner.lpush, which
\* commands.rs does not define (it defines rpush, sending RPUSH), so where the
\* push puts its values is open: each value in turn at the head of the list,
\* the last one given coming first (at_head), or all of them after the items
\* already there, in the order given.
ExecLPUSH(s, key, values, at_head) ==
    IF values = <<>> \/ (Exists(s, key) /\ s[key].type # "list") THEN s
    ELSE IF at_head THEN StorePut(s, key, ListVal(Reverse(values) \o Items(s, key)))
    ELSE StorePut(s, key, ListVal(Items(s, key) \o values))

\* The reply to the push: the length of the list, or an error for no value or
\* a key of another type.
ReplyLPUSH(s, key, values) ==
    IF values = <<>> THEN RespError("ERR wrong number of arguments")
    ELSE IF Exists(s, key) /\ s[key].type # "list" THEN RespError("WRONGTYPE")
    ELSE Integer(Len(values) + Len(Items(s, key)))

\* LRANGE key min max: the items from index min to index max, both counted
\* from 0, a negative index counting from the end of the list.
ReplyLRANGE(s, key, min, max) ==
    IF Exists(s, key) /\ s[key].type # "list" THEN RespError("WRONGTYPE")
    ELSE LET items == Items(s, key)
             n == Len(items)
             from == IF min < 0 THEN (IF n + min < 0 THEN 0 ELSE n + min) ELSE min
             to == IF max < 0 THEN n + max ELSE (IF max >= n THEN n - 1 ELSE max)
         IN  IF from > to \/ from >= n THEN Array(<<>>)
             ELSE Array([i \in 1..(to - from + 1) |-> BulkString(items[from + i])])

\* String::from_resp of one element of a reply: an error reply is the remote
\* error, a bulk or simple string is itself, an integer is its decimal, and
\* nil or an array is refused.
StringFromResp(resp) ==
    IF resp.kind = "Error" THEN Err("Redis", "Remote")
    ELSE IF resp.kind \in {"BulkString", "SimpleString"} THEN Ok(resp.v)
    ELSE IF resp.kind = "Integer"
         THEN Ok(IF resp.v < 0 THEN <<"-">> \o FmtU64(-resp.v) ELSE FmtU64(resp.v))
    ELSE Err("Redis", "RESP")

\* Vec<String>::from_resp of a reply: an array whose elements are converted one
\* by one, the first one that fails ending the conversion with its error.
StringsFromResp(resp) ==
    IF resp.kind = "Error" THEN Err("Redis", "Remote")
    ELSE IF resp.kind # "Array" THEN Err("Redis", "RESP")
    ELSE LET got == [i \in 1..Len(resp.v) |-> StringFromResp(resp.v[i])]
             bad == {i \in 1..Len(resp.v) : got[i].tag = "Err"}
         IN  IF bad # {}
             THEN got[CHOOSE i \in bad : \A j \in bad : i <= j]
             ELSE Ok([i \in 1..Len(resp.v) |-> got[i].v])

\* push_choices: the awaited list push of the blobs onto c:<guild>.
push_choices(s, guild_id, blobs, at_head) ==
    LET key == gen_choice(guild_id)
    IN  [store |-> ExecLPUSH(s, key, blobs, at_head),
         ret |-> IF ReplyLPUSH(s, key, blobs).kind = "Error"
                 THEN Err("Redis", "Remote") ELSE Ok("unit")]

\* get_choices: a GET of c:<guild>, the empty list for a nil reply.
get_choices(s, guild_id) ==
    LET resp == ReplyGET(s, gen_choice(guild_id))
    IN  IF resp.kind = "Error" THEN Err("Redis", "Remote")
        ELSE IF resp.kind = "Nil" THEN Ok(<<>>)
        ELSE StringsFromResp(resp)

\* get_choices_ranged: LRANGE of c:<guild>, the empty list for a nil reply.
get_choices_ranged(s, guild_id, min, max) ==
    LET resp == ReplyLRANGE(s, gen_choice(guild_id), min, max)
    IN  IF resp.kind = "Error" THEN Err("Redis", "Remote")
        ELSE IF resp.kind = "Nil" THEN Ok(<<>>)
        ELSE StringsFromResp(resp)

\* delete_choices: the awaited DEL of c:<guild>.
delete_choices(s, guild_id) ==
    [store |-> StoreDel(s, gen_choice(guild_id)), ret |-> Ok("unit")]

Blobs == {<<"x">>, <<"y">>}

BlobLists == {<<>>} \cup {<<a>> : a \in Blobs} \cup {<<a, b>> : a, b \in Blobs}

RangeBounds == {<<0, -1>>, <<0, 0>>, <<1, -1>>, <<-1, -1>>}

PushChoices(guild_id, blobs, at_head) ==
    LET r == push_choices(store, guild_id, blobs, at_head)
    IN  /\ Len(Items(store, gen_choice(guild_id))) + Len(blobs) <= MaxChoices
        /\ store' = r.store
        /\ last' = [op |-> "push_choices", guild_id |-> guild_id, blobs |-> blobs,
                    at_head |-> at_head,
                    had_choices |-> Exists(store, gen_choice(guild_id)), ret |-> r.ret]
        /\ UNCHANGED <<tasks, overlap>>

DeleteChoices(guild_id) ==
    LET r == delete_choices(store, guild_id)
    IN  /\ store' = r.store
        /\ last' = [op |-> "delete_choices", guild_id |-> guild_id, ret |-> r.ret]
        /\ UNCHANGED <<tasks, overlap>>

GetChoices(guild_id) ==
    /\ last' = [op |-> "get_choices", guild_id |-> guild_id,
                ret |-> get_choices(store, guild_id)]
    /\ UNCHANGED <<store, tasks, overlap>>

GetChoicesRanged(guild_id, min, max) ==
    /\ last' = [op |-> "get_choices_ranged", guild_id |-> guild_id,
                min |-> min, max |-> max,
                ret |-> get_choices_ranged(store, guild_id, min, max)]
    /\ UNCHANGED <<store, tasks, overlap>>

NextChoices ==
    \/ \E g \in Guilds, blobs \in BlobLists, at_head \in BOOLEAN :
          PushChoices(g, blobs, at_head)
    \/ \E g \in Guilds : DeleteChoices(g)
    \/ \E g \in Guilds : GetChoices(g)
    \/ \E g \in Guilds, b \in RangeBounds : GetChoicesRanged(g, b[1], b[2])

SpecChoices == Init /\ [][NextChoices]_vars

\* ------------------------------------------------------------------------
\* The keys of gen.rs, one call at a time
\* ------------------------------------------------------------------------

KeyIds == {0, 1, 2, 12, 21}

OneIdFunctions ==
    {"channel", "channel_voice_states", "choice", "join", "guild", "guild_channels",
     "guild_features", "guild_members", "guild_player", "guild_roles",
     "guild_voice_states", "queue", "sharder_to"}

TwoIdFunctions == {"member", "member_roles", "role", "user_voice_state"}

\* The calls of the functions of gen.rs on the ids.
KeyCalls ==
    {[fn |-> f, ids |-> <<a>>] : f \in OneIdFunctions, a \in KeyIds}
        \cup {[fn |-> f, ids |-> <<a, b>>] : f \in TwoIdFunctions, a \in KeyIds, b \in KeyIds}

\* The key a call returns.
GenKey(call) ==
    LET a == call.ids[1]
        b == call.ids[Len(call.ids)]
    IN  CASE call.fn = "channel" -> gen_channel(a)
          [] call.fn = "channel_voice_states" -> gen_channel_voice_states(a)
          [] call.fn = "choice" -> gen_choice(a)
          [] call.fn = "join" -> gen_join(a)
          [] call.fn = "guild" -> gen_guild(a)
          [] call.fn = "guild_channels" -> gen_guild_channels(a)
          [] call.fn = "guild_features" -> gen_guild_features(a)
          [] call.fn = "guild_members" -> gen_guild_members(a)
          [] call.fn = "guild_player" -> gen_guild_player(a)
          [] call.fn = "guild_roles" -> gen_guild_roles(a)
          [] call.fn = "guild_voice_states" -> gen_guild_voice_states(a)
          [] call.fn = "queue" -> gen_queue(a)
          [] call.fn = "sharder_to" -> gen_sharder_to(a)
          [] call.fn = "member" -> gen_member(a, b)
          [] call.fn = "member_roles" -> gen_member_roles(a, b)
          [] call.fn = "role" -> gen_role(a, b)
          [] call.fn = "user_voice_state" -> gen_user_voice_state(a, b)

CallGen(call) ==
    /\ last' = [op |-> "gen", call |-> call, key |-> GenKey(call)]
    /\ UNCHANGED <<store, tasks, overlap>>

NextKeys == \E call \in KeyCalls : CallGen(call)

SpecKeys == Init /\ [][NextKeys]_vars

\* ------------------------------------------------------------------------
\* What the claims speak of
\* ------------------------------------------------------------------------

InChannelSet(s, c, u) == FmtU64(u) \in Members(s, gen_channel_voice_states(c))

InGuildSet(s, g, u) == FmtU64(u) \in Members(s, gen_guild_voice_states(g))

HasVoiceKey(s, g, u) == Exists(s, gen_user_voice_state(g, u))

\* The channels whose voice set holds the user.
ChannelSetsOf(s, u) == {c \in Channels : InChannelSet(s, c, u)}

\* No call is in progress, and the calls so far have run one at a time, each
\* with its writes applied before the next one started.
Quiescent == AllIdle /\ ~overlap

\* The step was the end of an upsert_voice_state call that returned Ok, its
\* writes applied, and the calls so far have run one at a time.
UpsertedVoiceState ==
    last.op = "upsert_voice_state" /\ last.ret.tag = "Ok" /\ ~overlap

\* The step was an upsert_guild call, and the calls so far have run one at a
\* time.
UpsertedGuild == last.op = "upsert_guild" /\ ~overlap

\* ------------------------------------------------------------------------
\* Claims
\* ------------------------------------------------------------------------

\* C1: after every upsert_voice_state call of a sequence started from the empty
\* store, the user is in the voice set of the last-written channel and in no
\* other, is in the guild's voice-state set iff that channel id was present, and
\* the voice-state key exists iff it was present.
C1_MatchesLastWritten ==
    UpsertedVoiceState =>
        LET u == last.state.user_id
            c == last.state.channel_id
        IN  /\ \A ch \in Channels :
                  InChannelSet(store, ch, u) <=> (c.some /\ c.v = ch)
            /\ InGuildSet(store, last.guild_id, u) <=> c.some
            /\ HasVoiceKey(store, last.guild_id, u) <=> c.some

\* C2: after upsert_voice_state with a channel id present, the user is a member
\* of the guild's voice-state set.
C2_InGuildSetAfterUpsert ==
    (UpsertedVoiceState /\ last.state.channel_id.some)
        => InGuildSet(store, last.guild_id, last.state.user_id)

\* C3: from the empty store, after every upsert_voice_state call, a user's
\* voice-state key exists iff the user is in exactly one channel-scoped voice
\* set, and that set is the one of the channel id stored under the key.
C3_KeyIffOneChannelSet ==
    Quiescent =>
        \A g \in Guilds, u \in Users :
            /\ HasVoiceKey(store, g, u) <=> Cardinality(ChannelSetsOf(store, u)) = 1
            /\ HasVoiceKey(store, g, u) =>
                  LET got == get_voice_state(store, g, u)
                  IN  /\ got.tag = "Ok"
                      /\ got.v.some
                      /\ ChannelSetsOf(store, u) = {got.v.v.channel_id}

\* A call has moved a user from one channel to another while the other users
\* hold their own voice states.
C3_Witness ==
    /\ UpsertedVoiceState
    /\ last.old.some
    /\ last.state.channel_id.some
    /\ last.old.v.channel_id # last.state.channel_id.v
    /\ \A u \in Users : HasVoiceKey(store, last.guild_id, u)

\* C4: a call with channel id B while the stored state has channel id A, A # B,
\* leaves the user out of ch:A:v and in ch:B:v.
C4_MovedBetweenChannelSets ==
    (/\ UpsertedVoiceState
     /\ last.old.some
     /\ last.state.channel_id.some
     /\ last.old.v.channel_id # last.state.channel_id.v)
        => /\ ~InChannelSet(store, last.old.v.channel_id, last.state.user_id)
           /\ InChannelSet(store, last.state.channel_id.v, last.state.user_id)

\* The moved user shared the old channel's set with another user, who stays.
C4_Witness ==
    /\ UpsertedVoiceState
    /\ last.old.some
    /\ last.state.channel_id.some
    /\ last.old.v.channel_id # last.state.channel_id.v
    /\ \E o \in Users : /\ o # last.state.user_id
                        /\ InChannelSet(store, last.old.v.channel_id, o)

\* C5: a call with no channel id while the stored state has channel id C leaves
\* the user out of ch:C:v and out of the guild's voice-state set, deletes the
\* voice-state key, and get_voice_state returns the absent result.
C5_ClearedVoiceState ==
    (/\ UpsertedVoiceState
     /\ last.old.some
     /\ ~last.state.channel_id.some)
        => LET u == last.state.user_id
               g == last.guild_id
           IN  /\ ~InChannelSet(store, last.old.v.channel_id, u)
               /\ ~InGuildSet(store, g, u)
               /\ ~HasVoiceKey(store, g, u)
               /\ get_voice_state(store, g, u) = Ok(None)

\* A user has left voice while another user stays in the guild's set.
C5_Witness ==
    /\ UpsertedVoiceState
    /\ last.old.some
    /\ ~last.state.channel_id.some
    /\ \E o \in Users : InGuildSet(store, last.guild_id, o)

\* C6: applying the call that has just been applied once more leaves the store
\* (voice-state hashes, channel sets, guild voice-state set) as it is.
C6_Idempotent ==
    (last.op = "upsert_voice_state" /\ ~overlap)
        => ExecAll(store, upsert_voice_state(store, last.guild_id, last.state).cmds)
              = store

\* The call applied was a move between channels, and applying it once more
\* sends writes again.
C6_Witness ==
    /\ UpsertedVoiceState
    /\ last.old.some
    /\ last.state.channel_id.some
    /\ last.old.v.channel_id # last.state.channel_id.v
    /\ upsert_voice_state(store, last.guild_id, last.state).cmds # <<>>

\* The user's channel sets and voice-state key agree: the user is in at most one
\* channel-scoped voice set, the one of the channel id stored under the key.
AtMostOneChannelSet(s, g, u) ==
    /\ Cardinality(ChannelSetsOf(s, u)) <= 1
    /\ ChannelSetsOf(s, u) # {} =>
          LET got == get_voice_state(s, g, u)
          IN  /\ got.tag = "Ok"
              /\ got.v.some
              /\ ChannelSetsOf(s, u) = {got.v.v.channel_id}

\* C7: once all concurrent upsert_voice_state calls for one user have completed
\* and their writes are applied, the user is in at most one channel-scoped voice
\* set, the one of the channel id stored under the voice-state key.
C7_ConsistentOnceAllDone ==
    AllIdle => \A g \in Guilds : AtMostOneChannelSet(store, g, ConcUser)

\* C7 as amended: the same, for calls none of which reads the stored voice state
\* while another call has read it and not yet had all its writes applied.
C7_ConsistentWithoutOverlap ==
    (AllIdle /\ ~overlap) => \A g \in Guilds : AtMostOneChannelSet(store, g, ConcUser)

\* Calls have run one after the other and left the user in a channel.
C7_Witness ==
    /\ AllIdle
    /\ ~overlap
    /\ \E g \in Guilds : HasVoiceKey(store, g, ConcUser)
    /\ ChannelSetsOf(store, ConcUser) # {}

\* C8: after upsert_guild, for every user the voice-state key exists iff the user
\* is a member of the guild's voice-state set.
C8_KeyIffInGuildSet ==
    UpsertedGuild =>
        \A u \in Users :
            HasVoiceKey(store, last.guild.id, u) <=> InGuildSet(store, last.guild.id, u)

IdSet(ids) == {FmtU64(i) : i \in ids}

\* C9: after upsert_guild each of the guild's five membership sets holds exactly
\* the entries of the snapshot, also when the snapshot's membership is empty.
C9_SetsReplaced ==
    UpsertedGuild =>
        LET guild == last.guild
        IN  /\ Members(store, gen_guild_channels(guild.id)) = IdSet(guild.channels)
            /\ Members(store, gen_guild_features(guild.id)) = Range(guild.features)
            /\ Members(store, gen_guild_members(guild.id)) = IdSet(DOMAIN guild.members)
            /\ Members(store, gen_guild_roles(guild.id)) = IdSet(DOMAIN guild.roles)
            /\ Members(store, gen_guild_voice_states(guild.id))
                  = IdSet(DOMAIN guild.voice_states)

\* A snapshot without members, roles, channels or voice states has replaced one
\* that had a member and a role: their hashes are still in the store.
C9_Witness ==
    /\ last.op = "upsert_guild"
    /\ DOMAIN last.guild.members = {}
    /\ DOMAIN last.guild.roles = {}
    /\ DOMAIN last.guild.voice_states = {}
    /\ last.guild.channels = {}
    /\ \E u \in Users : Exists(store, gen_member(last.guild.id, u))
    /\ \E r \in RoleIds : Exists(store, gen_role(last.guild.id, r))
    /\ \E c \in Channels : Exists(store, gen_channel_voice_states(c))

NumericLooking(s) == ParseU64(s).ok

\* C10: for a snapshot whose name, region and features are not numeric-looking,
\* get_guild after upsert_guild returns the snapshot's channel, member, role and
\* voice-state ids and its AFK channel, and each channel's voice set holds the
\* snapshot users whose voice state names the channel.
C10_GetGuildReturnsSnapshot ==
    (/\ UpsertedGuild
     /\ ~NumericLooking(last.guild.name)
     /\ ~NumericLooking(last.guild.region)
     /\ \A i \in 1..Len(last.guild.features) : ~NumericLooking(last.guild.features[i]))
        => LET guild == last.guild
               got == get_guild(store, guild.id)
           IN  /\ got.tag = "Ok"
               /\ got.v.channels = guild.channels
               /\ got.v.members = DOMAIN guild.members
               /\ got.v.roles = DOMAIN guild.roles
               /\ got.v.voice_states = DOMAIN guild.voice_states
               /\ got.v.afk_channel_id = guild.afk_channel_id
               /\ \A u \in DOMAIN guild.voice_states :
                     guild.voice_states[u].channel_id.some =>
                        InChannelSet(store, guild.voice_states[u].channel_id.v, u)

\* The snapshot read back has an AFK channel, members, roles and two users in
\* voice, in different channels.
C10_Witness ==
    /\ last.op = "upsert_guild"
    /\ ~NumericLooking(last.guild.name)
    /\ last.guild.afk_channel_id.some
    /\ DOMAIN last.guild.members # {}
    /\ DOMAIN last.guild.roles # {}
    /\ \E u, v \in DOMAIN last.guild.voice_states :
          /\ last.guild.voice_states[u].channel_id.some
          /\ last.guild.voice_states[v].channel_id.some
          /\ last.guild.voice_states[u].channel_id # last.guild.voice_states[v].channel_id
    /\ get_guild(store, last.guild.id).tag = "Ok"

\* C11: after upsert_guild, for every voice state of the snapshot that has a
\* channel id the user's voice-state hash exists and holds the snapshot's channel
\* id, session id and flags, and get_voice_state returns that channel id and
\* session id.
C11_VoiceHashesAfterUpsertGuild ==
    UpsertedGuild =>
        \A u \in DOMAIN last.guild.voice_states :
            LET state == last.guild.voice_states[u]
                key == gen_user_voice_state(last.guild.id, u)
                hash == Fields(store, key)
            IN  state.channel_id.some =>
                   /\ Exists(store, key)
                   /\ {"channel_id", "session_id", "mute", "self_deaf", "self_mute",
                       "suppress"} \subseteq DOMAIN hash
                   /\ hash["channel_id"] = FmtU64(state.channel_id.v)
                   /\ hash["session_id"] = state.session_id
                   /\ hash["mute"] = BoolArg(state.mute)
                   /\ hash["self_deaf"] = BoolArg(state.self_deaf)
                   /\ hash["self_mute"] = BoolArg(state.self_mute)
                   /\ hash["suppress"] = BoolArg(state.suppress)
                   /\ get_voice_state(store, last.guild.id, u)
                         = Ok(Some([channel_id |-> state.channel_id.v,
                                    session_id |-> state.session_id]))

\* C12: after upsert_guild, the hash of every member of the snapshot whose
\* nickname is absent has no nick field.
C12_NoNickWhenAbsent ==
    UpsertedGuild =>
        \A u \in DOMAIN last.guild.members :
            ~last.guild.members[u].nick.some =>
                "nick" \notin DOMAIN Fields(store, gen_member(last.guild.id, u))

\* C13: after upsert_guild with the AFK channel absent, the guild's hash has no
\* afk_channel_id field and get_guild returns a guild whose afk_channel_id is
\* absent.
C13_NoAfkWhenAbsent ==
    (UpsertedGuild /\ ~last.guild.afk_channel_id.some) =>
        LET got == get_guild(store, last.guild.id)
        IN  /\ "afk_channel_id" \notin DOMAIN Fields(store, gen_guild(last.guild.id))
            /\ got.tag = "Ok"
            /\ got.v.afk_channel_id = None

\* The step of the documented order a write of upsert_guild belongs to: 1 the
\* guild's hash, 2 the five membership sets, 3 a member's hash or role set,
\* 4 a role's hash, 5 a channel's voice set, 6 a voice-state hash.
WriteStep(guild, c) ==
    LET gid == guild.id
    IN  IF c.key = gen_guild(gid) THEN 1
        ELSE IF c.key \in {gen_guild_channels(gid), gen_guild_features(gid),
                           gen_guild_members(gid), gen_guild_roles(gid),
                           gen_guild_voice_states(gid)} THEN 2
        ELSE IF \E u \in Users : c.key \in {gen_member(gid, u), gen_member_roles(gid, u)}
             THEN 3
        ELSE IF \E r \in RoleIds : c.key = gen_role(gid, r) THEN 4
        ELSE IF \E ch \in Channels : c.key = gen_channel_voice_states(ch) THEN 5
        ELSE 6

\* C14: the writes of upsert_guild are applied in the order guild hash, the five
\* membership sets, member hashes and role sets, role hashes, channel voice
\* sets, voice-state hashes: no write of an earlier step follows one of a later
\* step, so no member or role hash is written before the five sets are replaced.
C14_WritesInDocumentedOrder ==
    \A t \in 1..MaxTasks :
        tasks[t].pc = "upserting_guild" =>
            \A i, j \in 1..Len(tasks[t].done) :
                i < j => WriteStep(tasks[t].guild, tasks[t].done[i])
                           <= WriteStep(tasks[t].guild, tasks[t].done[j])

\* C15: delete_voice_states returns the number of users in the guild's
\* voice-state set at the time of the call, and once its writes are applied the
\* set key and the voice-state key of every user that was in the set are gone.
C15_DeleteVoiceStatesCountsAndClears ==
    (last.op = "delete_voice_states" /\ ~overlap) =>
        /\ last.ret = Ok(Cardinality(last.before))
        /\ ~Exists(store, gen_guild_voice_states(last.guild_id))
        /\ \A u \in Users :
              FmtU64(u) \in last.before => ~HasVoiceKey(store, last.guild_id, u)

\* C16: delete_voice_state returns true iff the user's id was in the guild's
\* voice-state set when the removal was applied, false otherwise, and returns a
\* value in both cases.
C16_DeleteVoiceStateReturnsWhetherRemoved ==
    [][\A g \in Guilds, u \in Users :
          DeleteVoiceState(g, u) => last'.ret = Ok(InGuildSet(store, g, u))]_vars

\* C17: delete_voice_state and delete_voice_states leave every channel-scoped
\* voice set as it was: no step of either (the call of delete_voice_state, a
\* write of delete_voice_states, the last one ending the call) changes one.
C17_DeletesKeepChannelSets ==
    [][(\/ last'.op \in {"delete_voice_state", "delete_voice_states"}
        \/ last'.op = "write" /\ last'.of = "delete_voice_states")
          => \A c \in Channels :
                /\ Exists(store', gen_channel_voice_states(c))
                      <=> Exists(store, gen_channel_voice_states(c))
                /\ Members(store', gen_channel_voice_states(c))
                      = Members(store, gen_channel_voice_states(c))]_vars

\* delete_voice_state has removed the voice-state hash of a user who is still
\* in a channel's voice set.
C17_Witness ==
    /\ last.op = "delete_voice_state"
    /\ last.had_state
    /\ ~HasVoiceKey(store, last.guild_id, last.user_id)
    /\ ChannelSetsOf(store, last.user_id) # {}

\* C18: get_voice_states returns an error whenever some user id of the guild's
\* voice-state set has no voice-state hash, and otherwise a map with one entry
\* per user id of the set.
C18_GetVoiceStatesAllOrError ==
    Quiescent =>
        \A g \in Guilds :
            LET ids == {u \in Users : InGuildSet(store, g, u)}
                got == get_voice_states(store, g)
            IN  IF \E u \in ids : ~HasVoiceKey(store, g, u)
                THEN got.tag = "Err"
                ELSE got.tag = "Ok" /\ DOMAIN got.v = ids

\* C19: a guild whose hash key does not exist reads as the not-found error, and
\* a voice state whose hash key does not exist reads as the absent result, not
\* as an error and not as an object: so do get_guild and get_voice_state
\* answer on every store, and so has every call answered whose read of the
\* hash found no key.
C19_AbsentKeyReadsAsAbsent ==
    /\ \A g \in Guilds :
          ~Exists(store, gen_guild(g)) => get_guild(store, g) = Err("None", "none")
    /\ \A g \in Guilds, u \in Users :
          ~HasVoiceKey(store, g, u) => get_voice_state(store, g, u) = Ok(None)
    /\ last.op = "get_guild" /\ ~last.had_hash
          => last.ret = Err("None", "none")
    /\ last.op = "get_voice_state" /\ ~HasVoiceKey(store, last.guild_id, last.user_id)
          => last.ret = Ok(None)

\* get_guild has answered not-found for a guild whose hash was written and then
\* deleted (its channel set is still there), and the voice-state hash of a user
\* has been deleted as well (the user is still in a channel's voice set).
C19_Witness ==
    /\ last.op = "get_guild"
    /\ ~last.had_hash
    /\ last.ret = Err("None", "none")
    /\ ~Exists(store, gen_guild(last.id))
    /\ Exists(store, gen_guild_channels(last.id))
    /\ ~HasVoiceKey(store, last.id, ConcUser)
    /\ ChannelSetsOf(store, ConcUser) # {}

\* C20: a failure of a read the operation awaits is returned to the caller as an
\* error: the read of the guild's voice-state set in delete_voice_states and
\* the read of the old state in upsert_voice_state.
C20_AwaitedFailuresAreReturned ==
    (last.op \in {"delete_voice_states", "upsert_voice_state"} /\ last.read.tag = "Err")
        => last.ret.tag = "Err"

\* C21: when a voice-state hash exists but cannot be decoded, get_voice_state
\* reports an error whose kind is not the kind of a store I/O failure and is
\* not the not-found kind.
C21_DecodeFailureHasItsOwnKind ==
    \A g \in Guilds, u \in Users :
        LET got == get_voice_state(store, g, u)
        IN  (HasVoiceKey(store, g, u) /\ got.tag = "Err") =>
               /\ got.kind # StoreFailure.kind
               /\ got.kind # "None"

\* C22: get_voice_state returns the channel id and the session id as written
\* by upsert_voice_state, whatever the session id string, and get_guild returns
\* the name and the region as written by upsert_guild.
C22_ReadsBackWhatWasWritten ==
    /\ (UpsertedVoiceState /\ last.state.channel_id.some) =>
          get_voice_state(store, last.guild_id, last.state.user_id)
             = Ok(Some([channel_id |-> last.state.channel_id.v,
                        session_id |-> last.state.session_id]))
    /\ UpsertedGuild =>
          LET got == get_guild(store, last.guild.id)
          IN  /\ got.tag = "Ok"
              /\ got.v.name = last.guild.name
              /\ got.v.region = last.guild.region

\* The user's hash has a token field exactly when the state of the call in
\* last carries a token, and then it is that token.
TokenIffInNewState ==
    LET fields == Fields(store, gen_user_voice_state(last.guild_id, last.state.user_id))
    IN  /\ ("token" \in DOMAIN fields) <=> last.state.token.some
        /\ last.state.token.some => fields["token"] = last.state.token.v

\* C23: after upsert_voice_state with a channel has completed, whatever it
\* returned, the hash has a token field exactly when the new state carries a
\* token (and then it is that token); a token left by an earlier upsert or by
\* upsert_voice_state_info does not survive an upsert whose token is absent.
C23_TokenIffInNewState ==
    (last.op = "upsert_voice_state" /\ ~overlap /\ last.state.channel_id.some) =>
        TokenIffInNewState

\* The same after the calls that returned Ok, which are the calls whose read of
\* the old state succeeded.
TokenIffInNewStateAfterOk ==
    (UpsertedVoiceState /\ last.state.channel_id.some) => TokenIffInNewState

\* An upsert without a token has returned Ok on a hash that
\* upsert_voice_state_info had filled (its endpoint is still there), and the
\* token is gone.
TokenDeletedAfterOk ==
    /\ UpsertedVoiceState
    /\ last.state.channel_id.some
    /\ ~last.state.token.some
    /\ LET fields == Fields(store, gen_user_voice_state(last.guild_id, last.state.user_id))
       IN  /\ "endpoint" \in DOMAIN fields
           /\ "token" \notin DOMAIN fields

\* C24: a VoiceState or a Role is materialized whenever its declared fields are
\* all present and the numeric-declared one (channel_id, permissions) is a
\* string of digits, whatever the string-declared one (session_id, name)
\* holds; other fields are ignored.
C24_MaterializesWhenFieldsPresent ==
    last.op = "from_resp" =>
        LET declared == IF last.type = "VoiceState"
                        THEN {"channel_id", "session_id"} ELSE {"name", "permissions"}
            numeric == IF last.type = "VoiceState" THEN "channel_id" ELSE "permissions"
        IN  (/\ declared \subseteq DOMAIN last.fields
             /\ Len(last.fields[numeric]) > 0
             /\ AllDigits(last.fields[numeric]))
               => last.ret.tag = "Ok"

\* The snapshot's users whose voice state names channel c.
SnapshotUsersIn(guild, c) ==
    {u \in DOMAIN guild.voice_states :
        /\ guild.voice_states[u].channel_id.some
        /\ guild.voice_states[u].channel_id.v = c}

\* The positions among the applied writes of a call that send name to key.
WritesTo(done, name, key) ==
    {i \in 1..Len(done) : done[i].name = name /\ done[i].key = key}

\* C25: once all writes of upsert_guild(snapshot) are applied, every channel c
\* named by a voice state of the snapshot has ch:<c>:v equal to the snapshot's
\* users in c, and the call has deleted that set once and added to it once.
C25_ChannelSetsReplacedOnce ==
    \A t \in 1..MaxTasks :
        (tasks[t].pc = "upserting_guild" /\ tasks[t].cmds = <<>>) =>
            \A c \in Channels :
                SnapshotUsersIn(tasks[t].guild, c) # {} =>
                    /\ \A u \in Users :
                          InChannelSet(store, c, u) <=> u \in SnapshotUsersIn(tasks[t].guild, c)
                    /\ Cardinality(WritesTo(tasks[t].done, "DEL",
                                            gen_channel_voice_states(c))) = 1
                    /\ Cardinality(WritesTo(tasks[t].done, "SADD",
                                            gen_channel_voice_states(c))) = 1

\* The writes of a snapshot are all applied, and a channel it names had, by
\* the previous snapshot, a user the new snapshot does not put there.
C25_Witness ==
    /\ tasks[1].pc = "upserting_guild"
    /\ tasks[1].cmds = <<>>
    /\ last.op = "upsert_guild"
    /\ \E c \in Channels :
          /\ SnapshotUsersIn(tasks[1].guild, c) # {}
          /\ SnapshotUsersIn(last.guild, c) \ SnapshotUsersIn(tasks[1].guild, c) # {}

\* C26: after upsert_guild(snapshot), every user the snapshot gives a voice
\* state with a channel is in that channel's set and in no other, and every
\* other user is in no channel set.
C26_OneChannelSetPerSnapshotUser ==
    UpsertedGuild =>
        \A u \in Users :
            LET vs == last.guild.voice_states
            IN  IF u \in DOMAIN vs /\ vs[u].channel_id.some
                THEN ChannelSetsOf(store, u) = {vs[u].channel_id.v}
                ELSE ChannelSetsOf(store, u) = {}

\* upsert_guild has just deleted the guild's voice-state set and has not yet
\* added the snapshot's users to it.
BetweenDelAndAdd(id) ==
    /\ tasks[1].pc = "upserting_guild"
    /\ tasks[1].guild.id = id
    /\ tasks[1].done # <<>>
    /\ tasks[1].cmds # <<>>
    /\ LET d == tasks[1].done[Len(tasks[1].done)]
           n == Head(tasks[1].cmds)
       IN  /\ d.name = "DEL" /\ d.key = gen_guild_voice_states(id)
           /\ n.name = "SADD" /\ n.key = gen_guild_voice_states(id)

\* upsert_voice_state has written the user's hash and has not yet applied its
\* writes to the channel sets.
BetweenHashAndSets(guild_id, user_id) ==
    /\ tasks[2].pc = "writing"
    /\ tasks[2].call.op = "upsert_voice_state"
    /\ tasks[2].call.guild_id = guild_id
    /\ tasks[2].call.state.user_id = user_id
    /\ tasks[2].call.state.channel_id.some
    /\ \A i \in 1..Len(tasks[2].cmds) : tasks[2].cmds[i].name \in {"SREM", "SADD"}

\* C27: a read made while a call is in progress sees the store as the writes
\* applied so far have left it: a get_guild whose read of the guild's
\* voice-state set falls between the DEL and the SADD of that set returns no
\* voice states, and between the HMSET of a voice state and the writes to the
\* channel sets get_voice_state returns the new channel.
C27_ReadersSeeIntermediateStates ==
    [][/\ (/\ ReadGuildSet(2)
           /\ GuildSets(tasks[2].id)[Len(tasks[2].sets) + 1].field = "voice_states"
           /\ BetweenDelAndAdd(tasks[2].id)) =>
                 /\ last'.op = "get_guild"
                 /\ last'.ret.tag = "Ok"
                 /\ last'.ret.v.voice_states = {}
       /\ \A g \in Guilds, u \in Users :
             (ReadVoiceState(g, u) /\ BetweenHashAndSets(g, u)) =>
                 /\ last'.ret.tag = "Ok"
                 /\ last'.ret.v.some
                 /\ last'.ret.v.v.channel_id = tasks[2].call.state.channel_id.v]_vars

\* get_guild has returned a guild without voice states between the DEL and
\* the SADD of a snapshot that has some, and the set is still missing.
C27_Witness ==
    /\ last.op = "get_guild"
    /\ last.pending = PendingWrites
    /\ BetweenDelAndAdd(last.id)
    /\ last.ret.tag = "Ok"
    /\ last.ret.v.voice_states = {}
    /\ ~Exists(store, gen_guild_voice_states(last.id))

\* get_voice_state has returned the new channel while the user is not yet in
\* that channel's set.
C27_WitnessVoiceState ==
    /\ last.op = "get_voice_state"
    /\ last.pending = PendingWrites
    /\ BetweenHashAndSets(last.guild_id, last.user_id)
    /\ last.ret.tag = "Ok"
    /\ last.ret.v.some
    /\ ~InChannelSet(store, last.ret.v.v.channel_id, last.user_id)

\* C28: get_voice_state_list returns the user ids of the guild's voice-state
\* set, each once, and the empty list when the set does not exist.
C28_ListIsGuildVoiceSet ==
    Quiescent =>
        \A g \in Guilds :
            LET got == get_voice_state_list(store, g)
            IN  /\ got.tag = "Ok"
                /\ Len(got.v) = Cardinality(Members(store, gen_guild_voice_states(g)))
                /\ \A u \in Users : InGuildSet(store, g, u) <=> u \in Range(got.v)

\* The text of an integer: an optional sign, then one or more digits.
IsIntegerText(s) ==
    \E k \in 0..1 :
        /\ Len(s) > k
        /\ k = 1 => s[1] \in {"+", "-"}
        /\ \A i \in (k + 1)..Len(s) : IsDigit(s[i])

\* C29: decoding the encoding of a LoopMode gives the LoopMode back, for the
\* three named modes and every LoopingRange(n); decoding a string that is
\* neither one of the three codes nor an integer returns an error.
C29_LoopModeRoundTrip ==
    /\ last.op = "encode_decode" => last.ret = Ok(last.mode)
    /\ (/\ last.op = "try_from"
        /\ last.value \notin {LOOPING_QUEUE_ENCODED, LOOPING_SONG_ENCODED,
                              LOOPING_OFF_ENCODED}
        /\ ~IsIntegerText(last.value))
          => last.ret.tag = "Err"

\* A negative range has been encoded with its sign and decoded.
C29_Witness ==
    /\ last.op = "encode_decode"
    /\ last.mode.tag = "LoopingRange"
    /\ last.mode.range.neg
    /\ last.encoded[1] = "-"
    /\ last.ret = Ok(last.mode)

\* A string that is neither a code nor an integer has been refused.
C29_WitnessRefused ==
    /\ last.op = "try_from"
    /\ last.value = <<"e","r","r","o","r"," ","m","e"," ","p","l","s">>
    /\ last.ret.tag = "Err"

\* C30: in every state reached through completed calls of upsert_voice_state,
\* upsert_guild, delete_voice_state and delete_voice_states, a user whose
\* voice-state hash exists with channel id c is in ch:<c>:v.
C30_HashImpliesChannelSet ==
    Quiescent =>
        \A g \in Guilds, u \in Users :
            LET hash == Fields(store, gen_user_voice_state(g, u))
            IN  "channel_id" \in DOMAIN hash =>
                   \E c \in Channels :
                       /\ hash["channel_id"] = FmtU64(c)
                       /\ InChannelSet(store, c, u)

\* C31: when the read of the user's current voice state fails,
\* upsert_voice_state returns the error of the read and sends no write: the
\* step in which the call ends leaves the store as it was.
C31_FailedReadWritesNothing ==
    [][(last'.op = "upsert_voice_state" /\ last'.read.tag = "Err") =>
          /\ last'.ret = last'.read
          /\ last'.sent = 0
          /\ store' = store]_vars

\* upsert_voice_state with a channel has returned the error of its read, on a
\* hash that holds the endpoint and the token only.
C31_Witness ==
    /\ last.op = "upsert_voice_state"
    /\ last.ret.tag = "Err"
    /\ last.state.channel_id.some
    /\ DOMAIN Fields(store, gen_user_voice_state(last.guild_id, last.state.user_id))
          = {"endpoint", "token"}

\* C32: every existing voice-state hash has the channel_id and session_id
\* fields, so that get_voice_state does not fail to materialize it.
C32_HashesAreComplete ==
    Quiescent =>
        \A g \in Guilds, u \in Users :
            HasVoiceKey(store, g, u) =>
                /\ {"channel_id", "session_id"}
                      \subseteq DOMAIN Fields(store, gen_user_voice_state(g, u))
                /\ get_voice_state(store, g, u).tag = "Ok"

\* C33: delete_guild(id) removes the key g:<id> and no other key, every other
\* key keeping its value, and get_guild(id) then returns the not-found error.
C33_DeleteGuildRemovesHashOnly ==
    [][\A g \in Guilds :
          DeleteGuild(g) =>
              /\ DOMAIN store' = DOMAIN store \ {gen_guild(g)}
              /\ \A k \in DOMAIN store' : store'[k] = store[k]
              /\ get_guild(store', g) = Err("None", "none")]_vars

\* delete_guild has removed the hash of a guild whose channel, member and role
\* sets and member and role keys are still there.
C33_Witness ==
    /\ last.op = "delete_guild"
    /\ ~Exists(store, gen_guild(last.id))
    /\ Exists(store, gen_guild_channels(last.id))
    /\ Exists(store, gen_guild_members(last.id))
    /\ Exists(store, gen_guild_roles(last.id))
    /\ \E u \in Users : Exists(store, gen_member(last.id, u))
    /\ \E r \in RoleIds : Exists(store, gen_role(last.id, r))
    /\ get_guild(store, last.id) = Err("None", "none")

\* C34: upsert_guild leaves the voice-state hash of every user without a voice
\* state in the snapshot as it was, there or not, and such a user is not in the
\* guild's voice-state set afterwards. (A step whose last' is an upsert_guild
\* is a step of UpsertGuild(last'.guild).)
C34_UpsertGuildKeepsOtherHashes ==
    [][last'.op = "upsert_guild" =>
          LET guild == last'.guild
          IN  \A u \in Users \ DOMAIN guild.voice_states :
                  /\ HasVoiceKey(store', guild.id, u) <=> HasVoiceKey(store, guild.id, u)
                  /\ Fields(store', gen_user_voice_state(guild.id, u))
                        = Fields(store, gen_user_voice_state(guild.id, u))
                  /\ ~InGuildSet(store', guild.id, u)]_vars

\* upsert_guild has run with a snapshot that has voice states, none of them
\* for a user whose hash is in the store; that user is not in the guild's set.
C34_Witness ==
    /\ last.op = "upsert_guild"
    /\ DOMAIN last.guild.voice_states # {}
    /\ \E u \in Users \ DOMAIN last.guild.voice_states :
          /\ HasVoiceKey(store, last.guild.id, u)
          /\ "channel_id" \in DOMAIN Fields(store, gen_user_voice_state(last.guild.id, u))
          /\ ~InGuildSet(store, last.guild.id, u)

\* The choice list of a guild with no choices, read back after a push that put
\* its values after one another: the blobs in the order given.
ChoicesInOrderGivenAfterTailPush ==
    (last.op = "push_choices" /\ ~last.had_choices /\ ~last.at_head) =>
        get_choices_ranged(store, last.guild_id, 0, -1) = Ok(last.blobs)

\* The same read after a push that put each value at the head: the blobs in
\* the reverse of the order given.
ChoicesReversedAfterHeadPush ==
    (last.op = "push_choices" /\ ~last.had_choices /\ last.at_head) =>
        get_choices_ranged(store, last.guild_id, 0, -1) = Ok(Reverse(last.blobs))

\* After delete_choices(guild), get_choices and get_choices_ranged return the
\* empty list.
ChoicesEmptyAfterDelete ==
    last.op = "delete_choices" =>
        /\ get_choices(store, last.guild_id) = Ok(<<>>)
        /\ get_choices_ranged(store, last.guild_id, 0, -1) = Ok(<<>>)

RECURSIVE JoinColon(_)
\* The parts of a key pattern, joined by ":".
JoinColon(parts) ==
    IF Len(parts) = 1 THEN parts[1]
    ELSE parts[1] \o <<":">> \o JoinColon(Tail(parts))

\* The key pattern the naming table gives for an entity, filled with the ids.
\* The table has no row for guild_player and queue.
TableKey(call) ==
    LET a == FmtU64(call.ids[1])
        b == FmtU64(call.ids[Len(call.ids)])
    IN  CASE call.fn = "channel" -> JoinColon(<<<<"c", "h">>, a>>)
          [] call.fn = "channel_voice_states" -> JoinColon(<<<<"c", "h">>, a, <<"v">>>>)
          [] call.fn = "choice" -> JoinColon(<<<<"c">>, a>>)
          [] call.fn = "join" -> JoinColon(<<<<"j">>, a>>)
          [] call.fn = "guild" -> JoinColon(<<<<"g">>, a>>)
          [] call.fn = "guild_channels" -> JoinColon(<<<<"g">>, a, <<"c">>>>)
          [] call.fn = "guild_features" -> JoinColon(<<<<"g">>, a, <<"f">>>>)
          [] call.fn = "guild_members" -> JoinColon(<<<<"g">>, a, <<"m">>>>)
          [] call.fn = "guild_roles" -> JoinColon(<<<<"g">>, a, <<"r">>>>)
          [] call.fn = "guild_voice_states" -> JoinColon(<<<<"g">>, a, <<"v">>>>)
          [] call.fn = "member" -> JoinColon(<<<<"g">>, a, <<"m">>, b>>)
          [] call.fn = "member_roles" -> JoinColon(<<<<"g">>, a, <<"m">>, b, <<"r">>>>)
          [] call.fn = "role" -> JoinColon(<<<<"g">>, a, <<"r">>, b>>)
          [] call.fn = "user_voice_state" -> JoinColon(<<<<"g">>, a, <<"v">>, b>>)
          [] call.fn = "sharder_to" ->
                JoinColon(<<<<"s", "h", "a", "r", "d", "e", "r">>, <<"t", "o">>, a>>)

\* C36: the key a function of gen.rs returns is the naming table's pattern for
\* it, and no other call, of the same or another function, returns that key.
C36_KeysFollowTableAndAreInjective ==
    last.op = "gen" =>
        /\ last.call.fn \notin {"guild_player", "queue"} => last.key = TableKey(last.call)
        /\ \A other \in KeyCalls : GenKey(other) = last.key => other = last.call

\* member has been called with a guild id and a user id of two digits.
C36_Witness ==
    /\ last.op = "gen"
    /\ last.call = [fn |-> "member", ids |-> <<1, 12>>]
    /\ last.key = <<"g", ":", "1", ":", "m", ":", "1", "2">>

====
